---- MODULE Spec2Model ----
(***************************************************************************)
(* Model of wrongo (src/src/index.ts): an HTTP facade over a MongoDB       *)
(* driver.  The model follows one request from the moment its JSON body    *)
(* has been parsed to the moment its handler has ended, for                *)
(* POST /v0/transaction and POST /v0/update-one, against a document store  *)
(* with session-scoped transactions.                                       *)
(***************************************************************************)
EXTENDS Integers, Sequences, FiniteSets, TLC

(***************************************************************************)
(* Bounds of the model.                                                    *)
(***************************************************************************)
\* longest operations array of a transaction request that is executed
MaxOps == 2
\* longest operations array in the specification of validation alone
MaxValidatedOps == 1
\* attempts withTransaction makes before its retry window is over
MaxAttempts == 2

Names == {"a", "b"}
Collections == {"c1", "c2"}

(***************************************************************************)
(* JSON values.  A field of a body is one of: undefined (the key is        *)
(* absent), null (standing for every falsy value), a string, or an object. *)
(* Objects carry what the store reads from them: a filter or document      *)
(* carries `name`, an update carries the amount `n` of its                 *)
(* $inc on `value`.                                                        *)
(***************************************************************************)
Undefined == [k |-> "undefined", s |-> "", n |-> 0]
Null == [k |-> "null", s |-> "", n |-> 0]
Str(s) == [k |-> "string", s |-> s, n |-> 0]
Obj(s, n) == [k |-> "object", s |-> s, n |-> n]
\* an array of n documents named s
Arr(s, n) == [k |-> "array", s |-> s, n |-> n]

\* JavaScript truthiness, as used by `!operation.filter` etc.
Truthy(v) == /\ v.k \notin {"undefined", "null"}
             /\ ~(v.k = "string" /\ v.s = "")

\* option bags: maps from option name to a value
EmptyOptions == [x \in {} |-> Undefined]
\* object spread {...a, ...b}: keys of b override keys of a
Spread(a, b) == [x \in (DOMAIN a) \cup (DOMAIN b) |->
                   IF x \in DOMAIN b THEN b[x] ELSE a[x]]

\* z.any().default({}) of an options field
DefaultOptions(o) == IF o.k = "undefined" THEN EmptyOptions ELSE o.o

NoOptions == [k |-> "undefined", o |-> EmptyOptions]

(***************************************************************************)
(* Schema validation (zod).                                                *)
(***************************************************************************)
OperationTypes == {"findOneAndUpdate", "insertOne", "deleteOne"}

\* zod's issue.message for a value that is not of the expected type
ZodMessage(expected, v) ==
  IF v.k = "undefined" THEN "Required"
  ELSE "Expected " \o expected \o ", received " \o v.k

\* zod's issue.message for a value outside an enum
ZodEnumMessage(v) ==
  IF v.k = "undefined" THEN "Required" ELSE "Invalid enum value"

\* an issue: issue.path is <<field>>, or <<"operations", index, field>> for a
\* field of an element of `operations`
Issue(index, field, message) ==
  [index |-> index, field |-> field, message |-> message]

\* mutant: `type: z.string()` instead of the enum
OperationIssues_AnyType(operation, index) ==
  (IF operation.type.k = "string"
     THEN <<>>
     ELSE <<Issue(index, "type", ZodEnumMessage(operation.type))>>)
  \o
  (IF operation.collection.k = "string"
     THEN <<>>
     ELSE <<Issue(index, "collection",
                  ZodMessage("string", operation.collection))>>)

\* issues of one element of `operations`, in the schema's key order
OperationIssues(operation, index) ==
  (IF operation.type.k = "string" /\ operation.type.s \in OperationTypes
     THEN <<>>
     ELSE <<Issue(index, "type", ZodEnumMessage(operation.type))>>)
  \o
  (IF operation.collection.k = "string"
     THEN <<>>
     ELSE <<Issue(index, "collection",
                  ZodMessage("string", operation.collection))>>)

RECURSIVE TransactionIssues(_, _)
\* issues of the first `upto` operations of the array, in array order
TransactionIssues(operations, upto) ==
  IF upto = 0 THEN <<>>
  ELSE TransactionIssues(operations, upto - 1)
         \o OperationIssues(operations[upto], upto - 1)

\* issues of an UpdateOneSchema body: only `collection` is constrained
UpdateOneIssues(body) ==
  IF body.collection.k = "string" THEN <<>>
  ELSE <<Issue(-1, "collection", ZodMessage("string", body.collection))>>

\* the paths with a JSON body, and those without
PostPaths ==
  {"/v0/find", "/v0/find-one", "/v0/insert-one", "/v0/insert-many",
   "/v0/update-one", "/v0/update-many", "/v0/delete-one", "/v0/delete-many",
   "/v0/count", "/v0/create-index", "/v0/drop-index", "/v0/transaction"}
GetPaths == {"/", "/v0/collections", "/openapi.yml"}

\* issues of the body of a single-operation endpoint, in the schema's key
\* order: every schema wants `collection` to be a string, InsertManySchema
\* wants `documents` to be an array, every other field is z.any()
SingleIssues(path, single) ==
  (IF single.collection.k = "string" THEN <<>>
   ELSE <<Issue(-1, "collection", ZodMessage("string", single.collection))>>)
  \o
  (IF path = "/v0/insert-many" /\ single.documents.k # "array"
     THEN <<Issue(-1, "documents", ZodMessage("array", single.documents))>>
     ELSE <<>>)

(***************************************************************************)
(* Responses.  `has` is the set of keys of the JSON body.                  *)
(***************************************************************************)
NullDoc == [_id |-> 0, name |-> "", value |-> 0]
NoError == [index |-> -1, text |-> ""]
NoDebug == [name |-> "", message |-> ""]
NoResponse ==
  [status |-> 0, has |-> {}, error |-> NoError, issues |-> <<>>,
   data |-> <<>>, doc |-> NullDoc, operationCount |-> 0,
   debug |-> NoDebug, count |-> 0, indexName |-> ""]

\* app.onError for an HTTPException(status, {message}); a message
\* `Operation ${index}: text` is the pair (index, text)
HttpError(status, index, text, issues) ==
  [NoResponse EXCEPT !.status = status, !.has = {"error"},
                     !.error = [index |-> index, text |-> text],
                     !.issues = issues]

\* app.onError for any other error
InternalError == HttpError(500, -1, "Internal server error", <<>>)

\* the timeout middleware's HTTPException(408)
TimedOut == HttpError(408, -1, "Request timed out", <<>>)

\* issue.path.join('.')
IssuePath(issue) ==
  IF issue.index = -1 THEN issue.field
  ELSE "operations." \o ToString(issue.index) \o "." \o issue.field

\* `${issue.path.join('.')}: ${issue.message}`
IssueText(issue) == IssuePath(issue) \o ": " \o issue.message

RECURSIVE JoinIssues(_, _)
\* issues.map(...).join(', ') of the first n issues
JoinIssues(issues, n) ==
  IF n = 0 THEN ""
  ELSE IF n = 1 THEN IssueText(issues[1])
  ELSE JoinIssues(issues, n - 1) \o ", " \o IssueText(issues[n])

\* mutant: only the first issue is reported
ZodError_FirstIssue(issues) ==
  HttpError(400, -1, "Validation error: " \o IssueText(issues[1]), issues)

\* validateWithZod: the 400 it throws
ZodError(issues) ==
  HttpError(400, -1, "Validation error: " \o JoinIssues(issues, Len(issues)),
            issues)

(***************************************************************************)
(* The per-operation required-field check of POST /v0/transaction.         *)
(***************************************************************************)
\* mutant: `!operation.filter && !operation.update`
RequiredFieldError_AndSlip(operation) ==
  CASE operation.type.s = "findOneAndUpdate" ->
         IF ~Truthy(operation.filter) /\ ~Truthy(operation.update)
           THEN "findOneAndUpdate requires filter and update fields" ELSE ""
    [] operation.type.s = "insertOne" ->
         IF ~Truthy(operation.document)
           THEN "insertOne requires document field" ELSE ""
    [] operation.type.s = "deleteOne" ->
         IF ~Truthy(operation.filter)
           THEN "deleteOne requires filter field" ELSE ""
    [] OTHER -> ""

\* the text of the error an operation is rejected with, "" when it passes
RequiredFieldError(operation) ==
  CASE operation.type.s = "findOneAndUpdate" ->
         IF ~Truthy(operation.filter) \/ ~Truthy(operation.update)
           THEN "findOneAndUpdate requires filter and update fields" ELSE ""
    [] operation.type.s = "insertOne" ->
         IF ~Truthy(operation.document)
           THEN "insertOne requires document field" ELSE ""
    [] operation.type.s = "deleteOne" ->
         IF ~Truthy(operation.filter)
           THEN "deleteOne requires filter field" ELSE ""
    [] OTHER -> ""

\* mutant: the validation loop stops after the first operation
Rejected_FirstOnly(operations) ==
  {j \in 1..Len(operations) : j = 1 /\ RequiredFieldError(operations[j]) # ""}

\* indexes (1-based) of the operations the loop would reject
Rejected(operations) ==
  {j \in 1..Len(operations) : RequiredFieldError(operations[j]) # ""}

FirstRejected(operations) ==
  CHOOSE j \in Rejected(operations) : \A m \in Rejected(operations) : j <= m

\* mutant: no `operations.length === 0` check
ValidateTransaction_NoEmptyCheck(body) ==
  LET operations == body.operations
      issues == TransactionIssues(operations, Len(operations))
  IN  IF issues # <<>> THEN ZodError(issues)
      ELSE IF Rejected(operations) # {}
        THEN HttpError(400, FirstRejected(operations) - 1,
                       RequiredFieldError(operations[FirstRejected(operations)]),
                       <<>>)
      ELSE NoResponse

\* the validation of the handler: the response it throws, NoResponse when
\* the batch is accepted
ValidateTransaction(body) ==
  LET operations == body.operations
      issues == TransactionIssues(operations, Len(operations))
  IN  IF issues # <<>> THEN ZodError(issues)
      ELSE IF Len(operations) = 0
        THEN HttpError(400, -1, "At least one operation is required", <<>>)
      ELSE IF Rejected(operations) # {}
        THEN HttpError(400, FirstRejected(operations) - 1,
                       RequiredFieldError(operations[FirstRejected(operations)]),
                       <<>>)
      ELSE NoResponse

(***************************************************************************)
(* The document store.  A database maps each collection to its documents;  *)
(* a document is [_id, name, value].  A query without a sort returns the   *)
(* documents in insertion order, that is by _id here.                      *)
(***************************************************************************)
First(docs) == CHOOSE d \in docs : \A e \in docs : d._id <= e._id

\* a filter {name: s}; the filter {} (no name) matches every document
Matching(db, collection, filter) ==
  {d \in db[collection] : filter.s = "" \/ d.name = filter.s}

RECURSIVE SortById(_)
\* toArray() of a cursor without a sort
SortById(docs) ==
  IF docs = {} THEN <<>>
  ELSE <<First(docs)>> \o SortById(docs \ {First(docs)})

\* find(filter).toArray()
StoreFind(db, collection, filter) == SortById(Matching(db, collection, filter))

\* find({_id: {$in: ids}}).toArray()
StoreFindByIds(db, collection, ids) ==
  SortById({d \in db[collection] : d._id \in ids})

\* insertMany(documents): the database after, the ids being id, id + 1, ...
StoreInsertMany(db, collection, documents, id) ==
  [db EXCEPT ![collection] =
     @ \cup {[_id |-> id + j, name |-> documents.s, value |-> 0] :
               j \in 0..(documents.n - 1)}]

\* updateMany(filter, update): <<database after, modifiedCount>>; a $inc of
\* 0 modifies nothing
StoreUpdateMany(db, collection, filter, update) ==
  LET found == Matching(db, collection, filter)
  IN  <<[db EXCEPT ![collection] =
           (@ \ found) \cup {[d EXCEPT !.value = @ + update.n] : d \in found}],
        IF update.n = 0 THEN 0 ELSE Cardinality(found)>>

\* deleteMany(filter): <<database after, deletedCount>>
StoreDeleteMany(db, collection, filter) ==
  LET found == Matching(db, collection, filter)
  IN  <<[db EXCEPT ![collection] = @ \ found], Cardinality(found)>>

\* the name createIndex gives an index: options.name, or the keys' own
IndexName(keys, options) ==
  IF "name" \in DOMAIN options /\ options["name"].k = "string"
    THEN options["name"].s
    ELSE keys.s \o "_" \o ToString(keys.n)

IndexOf(keys, options) ==
  [name |-> IndexName(keys, options), keys |-> keys.s,
   unique |-> ("unique" \in DOMAIN options /\ Truthy(options["unique"]))]

\* two documents with the same value of the field `name`
Duplicates(docs) ==
  \E d \in docs : \E e \in docs : d._id # e._id /\ d.name = e.name

\* mutant: an index that already exists is refused
StoreCreateIndex_RefuseExisting(existing, docs, keys, options) ==
  LET wanted == IndexOf(keys, options)
  IN  IF \E i \in existing : i.name = wanted.name \/ i.keys = wanted.keys
        THEN <<existing, "", FALSE>>
      ELSE IF wanted.unique /\ wanted.keys = "name" /\ Duplicates(docs)
        THEN <<existing, "", FALSE>>
      ELSE <<existing \cup {wanted}, wanted.name, TRUE>>

\* createIndex(keys, options): <<indexes after, index name, the store accepts>>.
\* An index that exists with the same specification is left as it is; one
\* that shares the name or the keys of an index with another specification
\* is refused, and so is a unique index over duplicates.
StoreCreateIndex(existing, docs, keys, options) ==
  LET wanted == IndexOf(keys, options)
  IN  IF wanted \in existing THEN <<existing, wanted.name, TRUE>>
      ELSE IF \E i \in existing : i.name = wanted.name \/ i.keys = wanted.keys
        THEN <<existing, "", FALSE>>
      ELSE IF wanted.unique /\ wanted.keys = "name" /\ Duplicates(docs)
        THEN <<existing, "", FALSE>>
      ELSE <<existing \cup {wanted}, wanted.name, TRUE>>

\* dropIndex(name): <<indexes after, the store accepts>>
StoreDropIndex(existing, index) ==
  LET found == {i \in existing : i.name = index.s /\ i.name # "_id_"}
  IN  IF found = {} THEN <<existing, FALSE>> ELSE <<existing \ found, TRUE>>

\* findOneAndUpdate(filter, update, options): <<database after, result>>
StoreFindOneAndUpdate(db, collection, filter, update, options) ==
  LET found == Matching(db, collection, filter)
      before == First(found)
      after == [before EXCEPT !.value = @ + update.n]
      returnAfter == /\ "returnDocument" \in DOMAIN options
                     /\ options["returnDocument"] = Str("after")
  IN  IF found = {} THEN <<db, NullDoc>>
      ELSE <<[db EXCEPT ![collection] = (@ \ {before}) \cup {after}],
             IF returnAfter THEN after ELSE before>>

\* insertOne(document): the database after, the _id being the generated one
StoreInsertOne(db, collection, document, id) ==
  [db EXCEPT ![collection] =
     @ \cup {[_id |-> id, name |-> document.s, value |-> document.n]}]

\* findOne({_id: id})
StoreFindOneById(db, collection, id) ==
  LET found == {d \in db[collection] : d._id = id}
  IN  IF found = {} THEN NullDoc ELSE First(found)

\* mutant: deleteMany called instead of deleteOne
StoreDeleteOne_Many(db, collection, filter) ==
  LET found == Matching(db, collection, filter)
  IN  <<[db EXCEPT ![collection] = @ \ found], Cardinality(found)>>

\* deleteOne(filter): <<database after, deletedCount>>
StoreDeleteOne(db, collection, filter) ==
  LET found == Matching(db, collection, filter)
  IN  IF found = {} THEN <<db, 0>>
      ELSE <<[db EXCEPT ![collection] = @ \ {First(found)}], 1>>

\* the value of a `session` option
SessionValue(id) == [k |-> "session", s |-> "", n |-> id]

\* the session a store call runs in, 0 when its options name none
SessionOf(options) ==
  IF "session" \in DOMAIN options /\ options["session"].k = "session"
    THEN options["session"].n ELSE 0

(***************************************************************************)
(* The options each store call of the handlers is given.                   *)
(***************************************************************************)
\* mutant: the client's options spread last
FindOneAndUpdateOptions_ClientWins(operation, sessionId) ==
  Spread(Spread([session |-> SessionValue(sessionId)],
                [returnDocument |-> Str("after")]),
         DefaultOptions(operation.options))

FindOneAndUpdateOptions(operation, sessionId) ==
  Spread(Spread(DefaultOptions(operation.options),
                [session |-> SessionValue(sessionId)]),
         [returnDocument |-> Str("after")])

\* mutant: insertOne without the session
InsertOneOptions_NoSession(operation, sessionId) ==
  DefaultOptions(operation.options)

InsertOneOptions(operation, sessionId) ==
  Spread(DefaultOptions(operation.options),
         [session |-> SessionValue(sessionId)])

\* mutant: the read-back without the session
ReadBackOptions_NoSession(sessionId) == EmptyOptions

ReadBackOptions(sessionId) == [session |-> SessionValue(sessionId)]

\* mutant: the client's options spread last
DeleteOneOptions_ClientWins(operation, sessionId) ==
  Spread([session |-> SessionValue(sessionId)],
         DefaultOptions(operation.options))

DeleteOneOptions(operation, sessionId) ==
  Spread(DefaultOptions(operation.options),
         [session |-> SessionValue(sessionId)])

\* mutant: the client's options spread last
UpdateOneOptions_ClientWins(options) ==
  Spread([returnDocument |-> Str("after")], DefaultOptions(options))

UpdateOneOptions(options) ==
  Spread(DefaultOptions(options), [returnDocument |-> Str("after")])

\* mutant: the default spread last, over the client's options
TransactionOptions_DefaultWins(body) ==
  Spread(DefaultOptions(body.transactionOptions),
         [readPreference |-> Str("primary")])

\* mutant: the client's options alone, without the default
TransactionOptions_NoDefault(body) == DefaultOptions(body.transactionOptions)

\* the second argument of session.withTransaction
TransactionOptions(body) ==
  Spread([readPreference |-> Str("primary")],
         DefaultOptions(body.transactionOptions))

(***************************************************************************)
(* The entries pushed to operationResults and the success responses.       *)
(***************************************************************************)
FindOneAndUpdateResult(operation, result) ==
  [type |-> "findOneAndUpdate", collection |-> operation.collection.s,
   data |-> result]

InsertOneResult(operation, insertedDocument, insertedId) ==
  [type |-> "insertOne", collection |-> operation.collection.s,
   data |-> insertedDocument, insertedId |-> insertedId]

\* mutant: the entry of another case pasted
DeleteOneResult_CopyPaste(operation, deletedCount) ==
  [type |-> "findOneAndUpdate", collection |-> operation.collection.s,
   deletedCount |-> deletedCount]

DeleteOneResult(operation, deletedCount) ==
  [type |-> "deleteOne", collection |-> operation.collection.s,
   deletedCount |-> deletedCount]

TransactionResponse(results, operations) ==
  [NoResponse EXCEPT !.status = 200, !.has = {"data", "operationCount"},
                     !.data = results, !.operationCount = Len(operations)]

UpdateOneResponse(result) ==
  [NoResponse EXCEPT !.status = 200, !.has = {"data"}, !.doc = result]

(***************************************************************************)
(* The requests the model serves.                                          *)
(***************************************************************************)
Operation(type, collection, filter, document, update, options) ==
  [type |-> type, collection |-> collection, filter |-> filter,
   document |-> document, update |-> update, options |-> options]

ReturnBefore == [k |-> "object", o |-> [returnDocument |-> Str("before")]]

\* options: {session: null}, a client naming a session of its own
OwnSession == [k |-> "object", o |-> [session |-> Null]]

\* operations that pass validation, each with the fields its type reads
Targets == {<<"c1", "a">>, <<"c1", "b">>, <<"c2", "a">>}

ValidOperations ==
  {Operation(Str("insertOne"), Str(t[1]), Undefined, Obj(t[2], 0), Undefined,
             NoOptions) : t \in Targets}
  \cup
  {Operation(Str("findOneAndUpdate"), Str(t[1]), Obj(t[2], 0), Undefined,
             Obj("", 1), NoOptions) : t \in Targets}
  \cup
  {Operation(Str("findOneAndUpdate"), Str("c1"), Obj("a", 0), Undefined,
             Obj("", 1), ReturnBefore)}
  \cup
  {Operation(Str("deleteOne"), Str(t[1]), Obj(t[2], 0), Undefined, Undefined,
             NoOptions) : t \in Targets}
  \cup
  {Operation(Str("deleteOne"), Str("c1"), Obj("b", 0), Undefined, Undefined,
             OwnSession)}

\* operations that fail validation
InvalidOperations ==
  {Operation(Str("updateOne"), Str("c1"), Obj("a", 0), Undefined,
             Obj("", 1), NoOptions),
   Operation(Str("insertOne"), Undefined, Undefined, Obj("a", 0), Undefined,
             NoOptions),
   Operation(Str("insertOne"), Str("c1"), Obj("a", 0), Undefined, Undefined,
             NoOptions),
   Operation(Str("findOneAndUpdate"), Str("c1"), Obj("a", 0), Undefined,
             Undefined, NoOptions),
   Operation(Str("deleteOne"), Str("c1"), Null, Undefined, Undefined,
             NoOptions)}

\* every shape of one operation: each field absent, falsy or given
AllOperations ==
  {Operation(t, c, f, d, u, NoOptions) :
     t \in {Str(x) : x \in OperationTypes} \cup {Str("updateOne"), Undefined},
     c \in {Str("c1"), Undefined},
     f \in {Undefined, Null, Obj("a", 0)},
     d \in {Undefined, Null, Obj("a", 0)},
     u \in {Undefined, Null, Obj("", 1)}}

SeqsUpTo(S, n) == UNION {[1..m -> S] : m \in 0..n}

\* the body of a single-operation endpoint
Single(collection, filter, document, update, options, documents, keys, named) ==
  [collection |-> collection, filter |-> filter, document |-> document,
   update |-> update, options |-> options, documents |-> documents,
   keys |-> keys, index |-> named]

NoSingle ==
  Single(Undefined, Undefined, Undefined, Undefined, NoOptions, Undefined,
         Undefined, Undefined)

\* a body of POST /v0/transaction with its transactionOptions
TransactionBodyWith(operations, transactionOptions) ==
  [operations |-> operations, single |-> NoSingle,
   transactionOptions |-> transactionOptions]

TransactionBody(operations) == TransactionBodyWith(operations, NoOptions)

SingleBody(operation) ==
  [operations |-> <<>>, single |-> operation, transactionOptions |-> NoOptions]

\* values of transactionOptions: absent, null, and objects with and without
\* a readPreference
TransactionOptionsGiven ==
  {NoOptions,
   [k |-> "null", o |-> EmptyOptions],
   [k |-> "object", o |-> EmptyOptions],
   [k |-> "object", o |-> [readPreference |-> Str("secondary")]],
   [k |-> "object", o |-> [maxCommitTimeMS |-> Str("5000")]],
   [k |-> "object", o |-> [readPreference |-> Str("nearest"),
                           maxCommitTimeMS |-> Str("5000")]]}

\* one operation with each of the transactionOptions
OptionBodies ==
  {TransactionBodyWith(<<op>>, o) :
     op \in {Operation(Str("insertOne"), Str("c2"), Undefined, Obj("a", 0),
                       Undefined, NoOptions),
             Operation(Str("deleteOne"), Str("c1"), Null, Undefined, Undefined,
                       NoOptions)},
     o \in TransactionOptionsGiven \ {NoOptions}}

TransactionBodies ==
  {TransactionBody(ops) :
     ops \in SeqsUpTo(ValidOperations \cup InvalidOperations, MaxOps)}
  \cup OptionBodies

ValidatedBodies ==
  {TransactionBody(ops) : ops \in SeqsUpTo(AllOperations, MaxValidatedOps)}

UpdateOneBodies ==
  {SingleBody(Single(c, Obj(x, 0), Undefined, Obj("", 1), o, Undefined,
                     Undefined, Undefined)) :
     c \in {Str(y) : y \in Collections} \cup {Undefined},
     x \in Names, o \in {NoOptions, ReturnBefore}}

\* the documents in the database when the server starts
InitialStore ==
  [c \in Collections |->
     IF c = "c1"
       THEN {[_id |-> 1, name |-> "a", value |-> 0],
             [_id |-> 2, name |-> "a", value |-> 0],
             [_id |-> 3, name |-> "b", value |-> 0]}
       ELSE {}]

VARIABLES
  store,             \* the committed documents of each collection
  nextId,            \* the next _id the driver generates
  pc,                \* where the handler stands
  endpoint,          \* the path of the request
  body,              \* the parsed JSON body
  response,          \* the response the client has received, or NoResponse
  session,           \* the ClientSession of the request, 0 when it has none
  sessionsStarted,   \* sessions the request has started
  txn,               \* "none", "active", "committed" or "aborted"
  snapshot,          \* the database the transaction started from
  view,              \* the database as the transaction sees it
  attempt,           \* runs of the withTransaction callback so far
  index,             \* position in `operations` of the loop (1-based)
  operationResults,  \* the array the callback accumulates
  insertedId,        \* insertResult.insertedId between insertOne and findOne
  thrown,            \* the error a store call has thrown: "", "error",
                     \* "transient", "refused"
  threw,             \* a store call of an operation has thrown
  calls,             \* the store calls of the current run of the handler's
                     \* callback, in order, with their session
  store0,            \* the committed documents when the request arrived
  credentials,       \* the Authorization header: "valid", "invalid" or "none"
  withTransactionOptions,  \* the options session.withTransaction was given
  debug,             \* process.env.DEBUG === 'true'
  openapi,           \* serveStatic finds the file of /openapi.yml
  readPreference,    \* the readPreference of the connection string
  secondary,         \* the documents a secondary has replicated so far
  indexes,           \* the indexes of each collection
  otherWrites,       \* store calls of other requests since this one arrived
  requests,          \* requests answered before this one
  previous,          \* the request before this one, its response and the
                     \* indexes it left
  idsToUpdate,       \* update-many: the _ids of documentsToUpdate
  updateResult,      \* update-many: updateResult.modifiedCount
  client,            \* the module's `client`: 0 while undefined, else the
                     \* number of the MongoClient it holds
  db,                \* the module's `db`: 0 while undefined, else the number of
                     \* the MongoClient it was obtained from
  closed,            \* client.close() has been called
  process,           \* "starting", "connecting", "connected", "listening" or
                     \* "exited"
  suspended          \* the locals of the other request in flight, which
                     \* stands at an `await` while this one runs

vars ==
  <<store, nextId, pc, endpoint, body, response, session, sessionsStarted, txn,
    snapshot, view, attempt, index, operationResults, insertedId, thrown,
    threw, calls, store0, credentials, withTransactionOptions, debug, openapi,
    readPreference, secondary, indexes, otherWrites, requests, previous,
    idsToUpdate, updateResult, client, db, closed, process, suspended>>

handleVars == <<client, db, closed, process>>
environmentVars == <<debug, openapi, readPreference, handleVars, suspended>>
requestVars ==
  <<endpoint, body, store0, credentials, withTransactionOptions, environmentVars>>
serverVars ==
  <<secondary, indexes, otherWrites, requests, previous, idsToUpdate,
    updateResult>>
sessionVars == <<session, sessionsStarted>>
loopVars == <<attempt, index, operationResults, insertedId>>

\* the `_id_` index every collection has
IdIndex == [name |-> "_id_", keys |-> "_id", unique |-> TRUE]

\* the indexes in the database when the server starts
InitialIndexes ==
  [c \in Collections |->
     IF c = "c1"
       THEN {IdIndex, [name |-> "value_1", keys |-> "value", unique |-> FALSE]}
       ELSE {IdIndex}]

\* no request before this one
NoRequest ==
  [endpoint |-> "", body |-> TransactionBody(<<>>), response |-> NoResponse,
   indexes |-> InitialIndexes]

\* the locals of a request that has not arrived
IdleLocals ==
  [pc |-> "idle", endpoint |-> "", body |-> TransactionBody(<<>>),
   response |-> NoResponse, session |-> 0, txn |-> "none",
   snapshot |-> InitialStore, view |-> InitialStore, attempt |-> 0,
   index |-> 0, operationResults |-> <<>>, insertedId |-> 0, thrown |-> "",
   threw |-> FALSE, calls |-> <<>>, store0 |-> InitialStore,
   credentials |-> "", withTransactionOptions |-> EmptyOptions]

\* no request has arrived
Quiet ==
  /\ store = InitialStore
  /\ nextId = 4
  /\ pc = "idle"
  /\ endpoint = ""
  /\ body = TransactionBody(<<>>)
  /\ response = NoResponse
  /\ session = 0
  /\ sessionsStarted = 0
  /\ txn = "none"
  /\ snapshot = InitialStore
  /\ view = InitialStore
  /\ attempt = 0
  /\ index = 0
  /\ operationResults = <<>>
  /\ insertedId = 0
  /\ thrown = ""
  /\ threw = FALSE
  /\ calls = <<>>
  /\ store0 = InitialStore
  /\ credentials = ""
  /\ withTransactionOptions = EmptyOptions
  /\ secondary = InitialStore
  /\ indexes = InitialIndexes
  /\ otherWrites = 0
  /\ requests = 0
  /\ previous = NoRequest
  /\ idsToUpdate = {}
  /\ updateResult = 0
  /\ suspended = IdleLocals

\* the server has started: initMongoDB has assigned `client` and `db`, and
\* serve() is listening
Started ==
  /\ Quiet
  /\ client = 1
  /\ db = 1
  /\ closed = FALSE
  /\ process = "listening"

\* the module has been loaded and startServer has not run
Launched ==
  /\ Quiet
  /\ client = 0
  /\ db = 0
  /\ closed = FALSE
  /\ process = "starting"

\* DEBUG unset, no file for /openapi.yml, no readPreference in MONGODB_URL
Init ==
  /\ Started
  /\ debug = FALSE
  /\ openapi = FALSE
  /\ readPreference = "secondaryPreferred"

\* the outcomes of a store call: it returns, it throws, or it throws an
\* error labelled TransientTransactionError
Outcomes == {"ok", "error", "transient"}

\* the outcomes of a store call outside a transaction; the driver refuses an
\* argument it needs and has not been given
CallOutcomes(needed) ==
  IF \A v \in needed : Truthy(v) THEN {"ok", "error"} ELSE {"error"}

\* the first response wins: the timeout middleware races the handler
Respond(r) == IF response = NoResponse THEN r ELSE response

Call(fn, options) == [fn |-> fn, session |-> SessionOf(options)]

\* err.message of an HTTPException
ErrorText(error) ==
  IF error.index = -1 THEN error.text
  ELSE "Operation " \o ToString(error.index) \o ": " \o error.text

\* mutant: the debug object is attached whatever DEBUG is
OnError_AlwaysDebug(r, name, message) ==
  [r EXCEPT !.has = @ \cup {"debug"},
            !.debug = [name |-> name, message |-> message]]

\* app.onError: the debug object is attached when DEBUG is 'true'
OnError(r, name, message) ==
  IF debug
    THEN [r EXCEPT !.has = @ \cup {"debug"},
                   !.debug = [name |-> name, message |-> message]]
    ELSE r

\* app.onError for an HTTPException
OnHttpException(r) == OnError(r, "Error", ErrorText(r.error))

\* app.onError for an error of the store, `e` standing for its message
OnStoreError(e) == OnError(InternalError, "MongoError", e)

\* a store call runs in the transaction iff it is given its session
InTransaction(options) ==
  /\ txn = "active"
  /\ session # 0
  /\ SessionOf(options) = session

\* mutant: every store call reads the committed documents
Database_Committed(options) == store

\* the documents a store call sees: those of its transaction, or the
\* committed ones
Database(options) == IF InTransaction(options) THEN view ELSE store

\* the database a store call leaves behind goes to the transaction or
\* straight to the committed documents
Write(options, database) ==
  IF InTransaction(options)
    THEN view' = database /\ UNCHANGED store
    ELSE store' = database /\ UNCHANGED view

\* what the transaction changed, applied to the committed documents
Committed(committed, from, to) ==
  [c \in Collections |-> (committed[c] \ (from[c] \ to[c])) \cup (to[c] \ from[c])]

(***************************************************************************)
(* POST /v0/transaction                                                    *)
(***************************************************************************)
\* the body is validated; a rejected one is answered 400, an accepted one
\* gets its session and transaction and reaches its first store call
RequestTransaction(bodies) ==
  /\ pc = "idle"
  /\ \E b \in bodies :
       /\ body' = b
       /\ endpoint' = "/v0/transaction"
       /\ store0' = store
       /\ credentials' = "valid"
       /\ IF ValidateTransaction(b) # NoResponse
            THEN /\ response' = OnHttpException(ValidateTransaction(b))
                 /\ pc' = "done"
                 /\ UNCHANGED <<sessionVars, txn, snapshot, view, loopVars,
                                withTransactionOptions>>
            ELSE /\ response' = NoResponse
                 /\ withTransactionOptions' = TransactionOptions(b)
                 /\ pc' = IF Len(b.operations) = 0 THEN "commit" ELSE "operation"
                 /\ session' = sessionsStarted + 1
                 /\ sessionsStarted' = sessionsStarted + 1
                 /\ txn' = "active"
                 /\ snapshot' = store
                 /\ view' = store
                 /\ attempt' = 1
                 /\ index' = 1
                 /\ operationResults' = <<>>
                 /\ insertedId' = 0
  /\ UNCHANGED <<store, nextId, thrown, threw, calls, environmentVars,
                 serverVars>>

operation == body.operations[index]

\* the loop moves to the next operation, or the callback returns
Advance ==
  /\ index' = index + 1
  /\ pc' = IF index = Len(body.operations) THEN "commit" ELSE "operation"

\* mutant: the error of a store call is swallowed and the loop goes on
Throw_Continue(outcome) ==
  /\ thrown' = outcome
  /\ threw' = TRUE
  /\ Advance
  /\ UNCHANGED <<store, view, nextId, attempt, operationResults, insertedId>>

\* a store call throws: the error leaves the loop and the callback
Throw(outcome) ==
  /\ thrown' = outcome
  /\ threw' = TRUE
  /\ pc' = "abort"
  /\ UNCHANGED <<store, view, nextId, loopVars>>

FindOneAndUpdate ==
  /\ pc = "operation"
  /\ operation.type.s = "findOneAndUpdate"
  /\ LET options == FindOneAndUpdateOptions(operation, session)
         got == StoreFindOneAndUpdate(Database(options), operation.collection.s,
                                      operation.filter, operation.update, options)
     IN  /\ calls' = Append(calls, Call("findOneAndUpdate", options))
         /\ \E outcome \in Outcomes :
              IF outcome = "ok"
                THEN /\ Write(options, got[1])
                     /\ operationResults' =
                          Append(operationResults,
                                 FindOneAndUpdateResult(operation, got[2]))
                     /\ Advance
                     /\ UNCHANGED <<nextId, attempt, insertedId, thrown, threw>>
                ELSE Throw(outcome)
  /\ UNCHANGED <<requestVars, response, sessionVars, txn, snapshot, serverVars>>

InsertOne ==
  /\ pc = "operation"
  /\ operation.type.s = "insertOne"
  /\ LET options == InsertOneOptions(operation, session)
     IN  /\ calls' = Append(calls, Call("insertOne", options))
         /\ \E outcome \in Outcomes :
              IF outcome = "ok"
                THEN /\ Write(options,
                              StoreInsertOne(Database(options),
                                             operation.collection.s,
                                             operation.document, nextId))
                     /\ insertedId' = nextId
                     /\ nextId' = nextId + 1
                     /\ pc' = "readBack"
                     /\ UNCHANGED <<attempt, index, operationResults, thrown, threw>>
                ELSE Throw(outcome)
  /\ UNCHANGED <<requestVars, response, sessionVars, txn, snapshot, serverVars>>

\* findOne({_id: insertResult.insertedId}, {session})
ReadBack ==
  /\ pc = "readBack"
  /\ LET options == ReadBackOptions(session)
         insertedDocument ==
           StoreFindOneById(Database(options), operation.collection.s, insertedId)
     IN  /\ calls' = Append(calls, Call("findOne", options))
         /\ \E outcome \in Outcomes :
              IF outcome = "ok"
                THEN /\ operationResults' =
                          Append(operationResults,
                                 InsertOneResult(operation, insertedDocument,
                                                 insertedId))
                     /\ Advance
                     /\ UNCHANGED <<store, view, nextId, attempt, insertedId,
                                    thrown, threw>>
                ELSE Throw(outcome)
  /\ UNCHANGED <<requestVars, response, sessionVars, txn, snapshot, serverVars>>

DeleteOne ==
  /\ pc = "operation"
  /\ operation.type.s = "deleteOne"
  /\ LET options == DeleteOneOptions(operation, session)
         got == StoreDeleteOne(Database(options), operation.collection.s,
                               operation.filter)
     IN  /\ calls' = Append(calls, Call("deleteOne", options))
         /\ \E outcome \in Outcomes :
              IF outcome = "ok"
                THEN /\ Write(options, got[1])
                     /\ operationResults' =
                          Append(operationResults,
                                 DeleteOneResult(operation, got[2]))
                     /\ Advance
                     /\ UNCHANGED <<nextId, attempt, insertedId, thrown, threw>>
                ELSE Throw(outcome)
  /\ UNCHANGED <<requestVars, response, sessionVars, txn, snapshot, serverVars>>

\* mutant: the array outlives the run of the callback
Retry_KeepResults ==
  /\ txn' = "active"
  /\ snapshot' = store
  /\ view' = store
  /\ attempt' = attempt + 1
  /\ index' = 1
  /\ insertedId' = 0
  /\ pc' = "operation"
  /\ calls' = <<>>
  /\ UNCHANGED <<response, sessionVars, operationResults>>

\* withTransaction runs the callback again: a new transaction, and the
\* callback's own `operationResults = []`
Retry ==
  /\ txn' = "active"
  /\ snapshot' = store
  /\ view' = store
  /\ attempt' = attempt + 1
  /\ index' = 1
  /\ operationResults' = <<>>
  /\ insertedId' = 0
  /\ pc' = "operation"
  /\ calls' = <<>>
  /\ UNCHANGED <<response, sessionVars>>

\* mutant: the error is caught and what the loop had collected is returned
Rethrow_PartialResults(error) ==
  /\ txn' = "aborted"
  /\ view' = store
  /\ session' = 0
  /\ response' = Respond(TransactionResponse(operationResults, body.operations))
  /\ pc' = "done"
  /\ UNCHANGED <<snapshot, sessionsStarted, attempt, index, operationResults,
                 insertedId, calls>>

\* mutant: the session is not ended when withTransaction rethrows
Rethrow_SessionLeft(error) ==
  /\ txn' = "aborted"
  /\ view' = store
  /\ response' = Respond(OnStoreError(error))
  /\ pc' = "done"
  /\ UNCHANGED <<session, snapshot, sessionsStarted, loopVars, calls>>

\* withTransaction rethrows, withSession ends the session, app.onError answers
Rethrow(error) ==
  /\ txn' = "aborted"
  /\ view' = store
  /\ session' = 0
  /\ response' = Respond(OnStoreError(error))
  /\ pc' = "done"
  /\ UNCHANGED <<snapshot, sessionsStarted, loopVars, calls>>

CanRetry(error) == error = "transient" /\ attempt < MaxAttempts

\* the callback threw: abortTransaction, then retry or rethrow
Abort ==
  /\ pc = "abort"
  /\ IF CanRetry(thrown) THEN Retry ELSE Rethrow(thrown)
  /\ thrown' = ""
  /\ UNCHANGED <<requestVars, store, nextId, threw, serverVars>>

\* the callback returned: commitTransaction, then the results are returned
\* through withSession (which ends the session) and answered
Commit ==
  /\ pc = "commit"
  /\ \E outcome \in Outcomes :
       IF outcome = "ok"
         THEN /\ store' = Committed(store, snapshot, view)
              /\ txn' = "committed"
              /\ view' = store'
              /\ session' = 0
              /\ response' =
                   Respond(TransactionResponse(operationResults, body.operations))
              /\ pc' = "done"
              /\ UNCHANGED <<snapshot, sessionsStarted, loopVars, calls>>
         ELSE /\ UNCHANGED store
              /\ IF CanRetry(outcome) THEN Retry ELSE Rethrow(outcome)
  /\ UNCHANGED <<requestVars, nextId, thrown, threw, serverVars>>

(***************************************************************************)
(* POST /v0/update-one                                                     *)
(***************************************************************************)
RequestUpdateOne ==
  /\ pc = "idle"
  /\ \E b \in UpdateOneBodies :
       /\ body' = b
       /\ endpoint' = "/v0/update-one"
       /\ store0' = store
       /\ credentials' = "valid"
       /\ IF UpdateOneIssues(b.single) # <<>>
            THEN /\ response' = OnHttpException(ZodError(UpdateOneIssues(b.single)))
                 /\ pc' = "done"
            ELSE /\ response' = NoResponse
                 /\ pc' = "updateOne"
  /\ UNCHANGED <<store, nextId, sessionVars, txn, snapshot, view, loopVars,
                 thrown, threw, calls, withTransactionOptions, environmentVars,
                 serverVars>>

UpdateOne ==
  /\ pc = "updateOne"
  /\ LET options == UpdateOneOptions(body.single.options)
         got == StoreFindOneAndUpdate(Database(options), body.single.collection.s,
                                      body.single.filter, body.single.update,
                                      options)
     IN  /\ calls' = Append(calls, Call("findOneAndUpdate", options))
         /\ \E outcome \in CallOutcomes({body.single.update}) :
              IF outcome = "ok"
                THEN /\ Write(options, got[1])
                     /\ response' = Respond(UpdateOneResponse(got[2]))
                     /\ UNCHANGED <<thrown, threw>>
                ELSE /\ response' = Respond(OnStoreError(outcome))
                     /\ thrown' = outcome
                     /\ threw' = TRUE
                     /\ UNCHANGED <<store, view>>
  /\ pc' = "done"
  /\ UNCHANGED <<requestVars, nextId, sessionVars, txn, snapshot, loopVars,
                 serverVars>>

(***************************************************************************)
(* The middleware in front of the handlers: serveStatic answers            *)
(* /openapi.yml when it finds the file and passes the request on when it   *)
(* does not; basicAuth then answers 401 to a request without valid         *)
(* credentials.                                                            *)
(***************************************************************************)
Paths == PostPaths \cup GetPaths

\* app.onError for the HTTPException(401) of basicAuth, which has no message
Unauthorized == HttpError(401, -1, "", <<>>)

\* the file of /openapi.yml
StaticFile == [NoResponse EXCEPT !.status = 200, !.has = {"file"}]

\* no route matches
NotFound == [NoResponse EXCEPT !.status = 404, !.has = {"text"}]

\* bodies a request without credentials may carry: valid ones and invalid ones
AnyBodies ==
  {SingleBody(NoSingle),
   SingleBody(Single(Str("c1"), Obj("a", 0), Obj("b", 0), Obj("", 1), NoOptions,
                     Arr("b", 1), Obj("name", 1), Str("name_1"))),
   TransactionBody(<<Operation(Str("deleteOne"), Str("c1"), Obj("a", 0),
                               Undefined, Undefined, NoOptions)>>)}

\* the variables a request that no handler serves leaves alone
unserved ==
  <<store, nextId, sessionVars, txn, snapshot, view, loopVars, thrown, threw,
    calls, withTransactionOptions, environmentVars, serverVars>>

\* GET /openapi.yml: the file when serveStatic finds it, whatever the
\* credentials; otherwise basicAuth, and after it no route
OpenApi ==
  /\ pc = "idle"
  /\ \E who \in {"valid", "invalid", "none"} :
       /\ credentials' = who
       /\ response' = IF openapi THEN StaticFile
                      ELSE IF who = "valid" THEN NotFound
                      ELSE OnHttpException(Unauthorized)
  /\ endpoint' = "/openapi.yml"
  /\ body' = SingleBody(NoSingle)
  /\ store0' = store
  /\ pc' = "done"
  /\ UNCHANGED unserved

\* basicAuth on every other path: a request without valid credentials
BasicAuth ==
  /\ pc = "idle"
  /\ \E path \in Paths \ {"/openapi.yml"} :
     \E who \in {"invalid", "none"} :
     \E b \in AnyBodies :
       /\ endpoint' = path
       /\ credentials' = who
       /\ body' = b
  /\ store0' = store
  /\ response' = OnHttpException(Unauthorized)
  /\ pc' = "done"
  /\ UNCHANGED unserved

(***************************************************************************)
(* The single-operation endpoints.                                         *)
(***************************************************************************)
\* the first store call of each handler
FirstCall(path) ==
  CASE path = "/v0/find" -> "find"
    [] path = "/v0/find-one" -> "findOne"
    [] path = "/v0/insert-one" -> "insertOne"
    [] path = "/v0/insert-many" -> "insertMany"
    [] path = "/v0/update-one" -> "updateOne"
    [] path = "/v0/update-many" -> "findToUpdate"
    [] path = "/v0/delete-one" -> "deleteOne"
    [] path = "/v0/delete-many" -> "deleteMany"
    [] path = "/v0/count" -> "countDocuments"
    [] path = "/v0/create-index" -> "createIndex"
    [] path = "/v0/drop-index" -> "dropIndex"
    [] path = "/" -> "stats"
    [] path = "/v0/collections" -> "listCollections"

(***************************************************************************)
(* The requests to the single-operation endpoints: each field of the body  *)
(* absent, falsy or given.                                                 *)
(***************************************************************************)
Unique == [k |-> "object", o |-> [unique |-> Str("true")]]

SingleBodies(path) ==
  LET given == {Str("c1"), Undefined}
      Body(c, f, d, u, o, ds, k, i) == SingleBody(Single(c, f, d, u, o, ds, k, i))
  IN  CASE path \in {"/v0/find", "/v0/find-one", "/v0/count"} ->
             {Body(c, f, Undefined, Undefined, NoOptions, Undefined, Undefined,
                   Undefined) :
                c \in given \cup {Str("")}, f \in {Undefined, Obj("a", 0)}}
        [] path = "/v0/insert-one" ->
             {Body(c, Undefined, d, Undefined, NoOptions, Undefined, Undefined,
                   Undefined) :
                c \in given, d \in {Undefined, Null, Obj("b", 0)}}
        [] path = "/v0/insert-many" ->
             {Body(c, Undefined, Undefined, Undefined, NoOptions, ds, Undefined,
                   Undefined) :
                c \in given, ds \in {Undefined, Str("not an array"), Arr("b", 2)}}
        [] path \in {"/v0/update-one", "/v0/update-many"} ->
             {Body(c, f, Undefined, u, NoOptions, Undefined, Undefined,
                   Undefined) :
                c \in given, f \in {Undefined, Obj("a", 0)},
                u \in {Undefined, Obj("", 0), Obj("", 1)}}
        [] path \in {"/v0/delete-one", "/v0/delete-many"} ->
             {Body(c, f, Undefined, Undefined, NoOptions, Undefined, Undefined,
                   Undefined) :
                c \in given, f \in {Undefined, Null, Obj("a", 0)}}
        [] path = "/v0/create-index" ->
             {Body(c, Undefined, Undefined, Undefined, o, Undefined, k,
                   Undefined) :
                c \in given, k \in {Undefined, Obj("name", 1), Obj("value", 1)},
                o \in {NoOptions, Unique}}
        [] path = "/v0/drop-index" ->
             {Body(c, Undefined, Undefined, Undefined, NoOptions, Undefined,
                   Undefined, i) :
                c \in given, i \in {Undefined, Str("value_1"), Str("name_1")}}

\* a POST with valid credentials: the body is validated against the schema
\* of the path and the handler reaches its first store call
RequestSingle(path) ==
  /\ pc = "idle"
  /\ \E b \in SingleBodies(path) :
       /\ body' = b
       /\ endpoint' = path
       /\ store0' = store
       /\ credentials' = "valid"
       /\ IF SingleIssues(path, b.single) # <<>>
            THEN /\ response' =
                      OnHttpException(ZodError(SingleIssues(path, b.single)))
                 /\ pc' = "done"
            ELSE /\ response' = NoResponse
                 /\ pc' = FirstCall(path)
  /\ UNCHANGED unserved

\* a GET with valid credentials
RequestGet(path) ==
  /\ pc = "idle"
  /\ body' = SingleBody(NoSingle)
  /\ endpoint' = path
  /\ store0' = store
  /\ credentials' = "valid"
  /\ response' = NoResponse
  /\ pc' = FirstCall(path)
  /\ UNCHANGED unserved

single == body.single

\* z.any().default({}) of a filter
DefaultFilter(filter) == IF filter.k = "undefined" THEN Obj("", 0) ELSE filter

\* a read outside a transaction goes where the connection string's
\* readPreference sends it: secondaryPreferred reads from a secondary when
\* one is available and from the primary when none is
ReadSources ==
  IF readPreference = "primary" THEN {store} ELSE {store, secondary}

\* the handler returns c.json(...)
Reply(r) == response' = Respond(r) /\ pc' = "done" /\ UNCHANGED <<thrown, threw>>

\* the store call returns and the handler goes on to its next call
Await(next) == pc' = next /\ UNCHANGED <<response, thrown, threw>>

\* the store call throws and app.onError answers
Fail(e) ==
  /\ response' = Respond(OnStoreError(e))
  /\ pc' = "done"
  /\ thrown' = e
  /\ threw' = TRUE

\* the variables no step of a single-operation handler changes
handlerVars ==
  <<requestVars, sessionVars, txn, snapshot, view, attempt, index,
    operationResults, secondary, otherWrites, requests, previous>>

Ok(has) == [NoResponse EXCEPT !.status = 200, !.has = has]

\* POST /v0/find; neither the driver nor the server accepts the empty string
\* as a collection name, so the call of such a request throws
HandleFind ==
  /\ pc = "find"
  /\ calls' = Append(calls, Call("find", DefaultOptions(single.options)))
  /\ \E source \in ReadSources : \E outcome \in CallOutcomes({single.collection}) :
       IF outcome = "ok"
         THEN LET result == StoreFind(source, single.collection.s,
                                      DefaultFilter(single.filter))
              IN  Reply([Ok({"data", "count"}) EXCEPT !.data = result,
                                                       !.count = Len(result)])
         ELSE Fail(outcome)
  /\ UNCHANGED <<handlerVars, store, nextId, insertedId, indexes, idsToUpdate,
                 updateResult>>

\* POST /v0/find-one
HandleFindOne ==
  /\ pc = "findOne"
  /\ calls' = Append(calls, Call("findOne", DefaultOptions(single.options)))
  /\ \E source \in ReadSources : \E outcome \in CallOutcomes({single.collection}) :
       IF outcome = "ok"
         THEN LET found == Matching(source, single.collection.s,
                                    DefaultFilter(single.filter))
              IN  Reply([Ok({"data"}) EXCEPT
                           !.doc = IF found = {} THEN NullDoc ELSE First(found)])
         ELSE Fail(outcome)
  /\ UNCHANGED <<handlerVars, store, nextId, insertedId, indexes, idsToUpdate,
                 updateResult>>

\* POST /v0/count
HandleCount ==
  /\ pc = "countDocuments"
  /\ calls' = Append(calls, Call("countDocuments", DefaultOptions(single.options)))
  /\ \E source \in ReadSources : \E outcome \in CallOutcomes({single.collection}) :
       IF outcome = "ok"
         THEN Reply([Ok({"count"}) EXCEPT
                       !.count = Cardinality(Matching(source, single.collection.s,
                                                      DefaultFilter(single.filter)))])
         ELSE Fail(outcome)
  /\ UNCHANGED <<handlerVars, store, nextId, insertedId, indexes, idsToUpdate,
                 updateResult>>

\* POST /v0/insert-one: insertOne(document, options)
HandleInsertOne ==
  /\ pc = "insertOne"
  /\ calls' = Append(calls, Call("insertOne", DefaultOptions(single.options)))
  /\ \E outcome \in CallOutcomes({single.document}) :
       IF outcome = "ok"
         THEN /\ store' = StoreInsertOne(store, single.collection.s,
                                         single.document, nextId)
              /\ insertedId' = nextId
              /\ nextId' = nextId + 1
              /\ Await("findInserted")
         ELSE /\ Fail(outcome)
              /\ UNCHANGED <<store, nextId, insertedId>>
  /\ UNCHANGED <<handlerVars, indexes, idsToUpdate, updateResult>>

\* POST /v0/insert-one: findOne({_id: result.insertedId})
HandleFindInserted ==
  /\ pc = "findInserted"
  /\ calls' = Append(calls, Call("findOne", EmptyOptions))
  /\ \E source \in ReadSources : \E outcome \in CallOutcomes({}) :
       IF outcome = "ok"
         THEN Reply([Ok({"data"}) EXCEPT
                       !.doc = StoreFindOneById(source, single.collection.s,
                                                insertedId)])
         ELSE Fail(outcome)
  /\ UNCHANGED <<handlerVars, store, nextId, insertedId, indexes, idsToUpdate,
                 updateResult>>

\* POST /v0/insert-many: insertMany(documents, options)
HandleInsertMany ==
  /\ pc = "insertMany"
  /\ calls' = Append(calls, Call("insertMany", DefaultOptions(single.options)))
  /\ \E outcome \in CallOutcomes({}) :
       IF outcome = "ok"
         THEN /\ store' = StoreInsertMany(store, single.collection.s,
                                          single.documents, nextId)
              /\ insertedId' = nextId
              /\ nextId' = nextId + single.documents.n
              /\ Await("findInsertedMany")
         ELSE /\ Fail(outcome)
              /\ UNCHANGED <<store, nextId, insertedId>>
  /\ UNCHANGED <<handlerVars, indexes, idsToUpdate, updateResult>>

\* POST /v0/insert-many: find({_id: {$in: insertedIds}})
HandleFindInsertedMany ==
  /\ pc = "findInsertedMany"
  /\ calls' = Append(calls, Call("find", EmptyOptions))
  /\ \E source \in ReadSources : \E outcome \in CallOutcomes({}) :
       IF outcome = "ok"
         THEN Reply([Ok({"data", "count"}) EXCEPT
                       !.data = StoreFindByIds(
                                  source, single.collection.s,
                                  insertedId..(insertedId + single.documents.n - 1)),
                       !.count = single.documents.n])
         ELSE Fail(outcome)
  /\ UNCHANGED <<handlerVars, store, nextId, insertedId, indexes, idsToUpdate,
                 updateResult>>

\* POST /v0/update-many: find(filter), kept as idsToUpdate
HandleFindToUpdate ==
  /\ pc = "findToUpdate"
  /\ calls' = Append(calls, Call("find", EmptyOptions))
  /\ \E source \in ReadSources : \E outcome \in CallOutcomes({}) :
       IF outcome = "ok"
         THEN /\ idsToUpdate' =
                   {d._id : d \in Matching(source, single.collection.s,
                                           single.filter)}
              /\ Await("updateMany")
         ELSE /\ Fail(outcome)
              /\ UNCHANGED idsToUpdate
  /\ UNCHANGED <<handlerVars, store, nextId, insertedId, indexes, updateResult>>

\* mutant: the update is applied to the documents of the pre-read
HandleUpdateMany_Pinned ==
  /\ pc = "updateMany"
  /\ calls' = Append(calls, Call("updateMany", DefaultOptions(single.options)))
  /\ \E outcome \in CallOutcomes({single.update}) :
       IF outcome = "ok"
         THEN LET found == {d \in store[single.collection.s] :
                              d._id \in idsToUpdate}
              IN  /\ store' =
                       [store EXCEPT ![single.collection.s] =
                          (@ \ found) \cup
                            {[d EXCEPT !.value = @ + single.update.n] :
                               d \in found}]
                  /\ updateResult' =
                       (IF single.update.n = 0 THEN 0 ELSE Cardinality(found))
                  /\ Await("findUpdated")
         ELSE /\ Fail(outcome)
              /\ UNCHANGED <<store, updateResult>>
  /\ UNCHANGED <<handlerVars, nextId, insertedId, indexes, idsToUpdate>>

\* POST /v0/update-many: updateMany(filter, update, options)
HandleUpdateMany ==
  /\ pc = "updateMany"
  /\ calls' = Append(calls, Call("updateMany", DefaultOptions(single.options)))
  /\ \E outcome \in CallOutcomes({single.update}) :
       IF outcome = "ok"
         THEN LET got == StoreUpdateMany(store, single.collection.s,
                                         single.filter, single.update)
              IN  /\ store' = got[1]
                  /\ updateResult' = got[2]
                  /\ Await("findUpdated")
         ELSE /\ Fail(outcome)
              /\ UNCHANGED <<store, updateResult>>
  /\ UNCHANGED <<handlerVars, nextId, insertedId, indexes, idsToUpdate>>

\* POST /v0/update-many: find({_id: {$in: idsToUpdate}})
HandleFindUpdated ==
  /\ pc = "findUpdated"
  /\ calls' = Append(calls, Call("find", EmptyOptions))
  /\ \E source \in ReadSources : \E outcome \in CallOutcomes({}) :
       IF outcome = "ok"
         THEN Reply([Ok({"data", "modifiedCount"}) EXCEPT
                       !.data = StoreFindByIds(source, single.collection.s,
                                               idsToUpdate),
                       !.count = updateResult])
         ELSE Fail(outcome)
  /\ UNCHANGED <<handlerVars, store, nextId, insertedId, indexes, idsToUpdate,
                 updateResult>>

\* POST /v0/delete-one
HandleDeleteOne ==
  /\ pc = "deleteOne"
  /\ calls' = Append(calls, Call("deleteOne", DefaultOptions(single.options)))
  /\ \E outcome \in CallOutcomes({}) :
       IF outcome = "ok"
         THEN LET got == StoreDeleteOne(store, single.collection.s, single.filter)
              IN  /\ store' = got[1]
                  /\ Reply([Ok({"deletedCount"}) EXCEPT !.count = got[2]])
         ELSE /\ Fail(outcome)
              /\ UNCHANGED store
  /\ UNCHANGED <<handlerVars, nextId, insertedId, indexes, idsToUpdate,
                 updateResult>>

\* POST /v0/delete-many
HandleDeleteMany ==
  /\ pc = "deleteMany"
  /\ calls' = Append(calls, Call("deleteMany", DefaultOptions(single.options)))
  /\ \E outcome \in CallOutcomes({}) :
       IF outcome = "ok"
         THEN LET got == StoreDeleteMany(store, single.collection.s, single.filter)
              IN  /\ store' = got[1]
                  /\ Reply([Ok({"deletedCount"}) EXCEPT !.count = got[2]])
         ELSE /\ Fail(outcome)
              /\ UNCHANGED store
  /\ UNCHANGED <<handlerVars, nextId, insertedId, indexes, idsToUpdate,
                 updateResult>>

\* POST /v0/create-index
HandleCreateIndex ==
  /\ pc = "createIndex"
  /\ calls' = Append(calls, Call("createIndex", DefaultOptions(single.options)))
  /\ LET got == StoreCreateIndex(indexes[single.collection.s],
                                 store[single.collection.s], single.keys,
                                 DefaultOptions(single.options))
     IN  \E outcome \in IF got[3] THEN CallOutcomes({single.keys}) ELSE {"refused"} :
           IF outcome = "ok"
             THEN /\ indexes' = [indexes EXCEPT ![single.collection.s] = got[1]]
                  /\ Reply([Ok({"data"}) EXCEPT !.indexName = got[2]])
             ELSE /\ Fail(outcome)
                  /\ UNCHANGED indexes
  /\ UNCHANGED <<handlerVars, store, nextId, insertedId, idsToUpdate,
                 updateResult>>

\* POST /v0/drop-index
HandleDropIndex ==
  /\ pc = "dropIndex"
  /\ calls' = Append(calls, Call("dropIndex", DefaultOptions(single.options)))
  /\ LET got == StoreDropIndex(indexes[single.collection.s], single.index)
     IN  \E outcome \in IF got[2] THEN CallOutcomes({single.index}) ELSE {"refused"} :
           IF outcome = "ok"
             THEN /\ indexes' = [indexes EXCEPT ![single.collection.s] = got[1]]
                  /\ Reply(Ok({"data"}))
             ELSE /\ Fail(outcome)
                  /\ UNCHANGED indexes
  /\ UNCHANGED <<handlerVars, store, nextId, insertedId, idsToUpdate,
                 updateResult>>

\* GET /: db.stats()
HandleStats ==
  /\ pc = "stats"
  /\ calls' = Append(calls, Call("stats", EmptyOptions))
  /\ \E outcome \in CallOutcomes({}) :
       IF outcome = "ok" THEN Reply(Ok({"data"})) ELSE Fail(outcome)
  /\ UNCHANGED <<handlerVars, store, nextId, insertedId, indexes, idsToUpdate,
                 updateResult>>

\* GET /v0/collections: db.listCollections()
HandleListCollections ==
  /\ pc = "listCollections"
  /\ calls' = Append(calls, Call("listCollections", EmptyOptions))
  /\ \E outcome \in CallOutcomes({}) :
       IF outcome = "ok" THEN Reply(Ok({"data"})) ELSE Fail(outcome)
  /\ UNCHANGED <<handlerVars, store, nextId, insertedId, indexes, idsToUpdate,
                 updateResult>>

(***************************************************************************)
(* The store besides this request: a secondary catches up with the         *)
(* primary, and another request's delete-many reaches the store while this *)
(* one is being served.                                                    *)
(***************************************************************************)
\* store calls of other requests while one request is served
MaxOtherWrites == 1

Replicate ==
  /\ secondary # store
  /\ secondary' = store
  /\ UNCHANGED <<store, nextId, pc, requestVars, response, sessionVars, txn,
                 snapshot, view, loopVars, thrown, threw, calls, indexes,
                 otherWrites, requests, previous, idsToUpdate, updateResult>>

\* the deleteMany of another request to POST /v0/delete-many
OtherDeleteMany ==
  /\ pc \notin {"idle", "done"}
  /\ otherWrites < MaxOtherWrites
  /\ \E name \in Names :
       /\ Matching(store, "c1", Obj(name, 0)) # {}
       /\ store' = StoreDeleteMany(store, "c1", Obj(name, 0))[1]
  /\ otherWrites' = otherWrites + 1
  /\ UNCHANGED <<nextId, pc, requestVars, response, sessionVars, txn, snapshot,
                 view, loopVars, thrown, threw, calls, secondary, indexes,
                 requests, previous, idsToUpdate, updateResult>>

\* store calls of other requests while an update-many is served
MaxOtherUpdates == 3

\* the findOneAndUpdate of another request to POST /v0/update-one, whose
\* update sets the `name` of one document
OtherUpdateOne ==
  /\ pc \notin {"idle", "done"}
  /\ otherWrites < MaxOtherUpdates
  /\ \E d \in store["c1"] : \E name \in Names \ {d.name} :
       store' = [store EXCEPT !["c1"] =
                   (@ \ {d}) \cup {[d EXCEPT !.name = name]}]
  /\ otherWrites' = otherWrites + 1
  /\ UNCHANGED <<nextId, pc, requestVars, response, sessionVars, txn, snapshot,
                 view, loopVars, thrown, threw, calls, secondary, indexes,
                 requests, previous, idsToUpdate, updateResult>>

(***************************************************************************)
(* The timeout middleware: while the handler awaits the store, the timer   *)
(* may fire and answer 408; the handler is not cancelled.                  *)
(***************************************************************************)
Timeout ==
  /\ pc \notin {"idle", "done"}
  /\ response = NoResponse
  /\ response' = OnHttpException(TimedOut)
  /\ UNCHANGED <<store, nextId, pc, requestVars, sessionVars, txn, snapshot,
                 view, loopVars, thrown, threw, calls, serverVars>>

\* the transactions of the server as a whole: one operation, and two
ServerTransactionBodies ==
  {TransactionBody(ops) :
     ops \in {<<>>,
              <<Operation(Str("insertOne"), Str("c1"), Undefined, Obj("b", 0),
                          Undefined, NoOptions)>>,
              <<Operation(Str("deleteOne"), Str("c1"), Obj("a", 0), Undefined,
                          Undefined, NoOptions),
                Operation(Str("findOneAndUpdate"), Str("c1"), Obj("a", 0),
                          Undefined, Obj("", 1), NoOptions)>>,
              <<Operation(Str("insertOne"), Undefined, Undefined, Undefined,
                          Undefined, NoOptions)>>,
              <<Operation(Str("deleteOne"), Str("c1"), Obj("a", 0), Undefined,
                          Undefined, NoOptions),
                Operation(Str("updateOne"), Null, Obj("a", 0), Undefined,
                          Obj("", 1), NoOptions)>>}}

Next ==
  \/ RequestTransaction(TransactionBodies)
  \/ FindOneAndUpdate
  \/ InsertOne
  \/ ReadBack
  \/ DeleteOne
  \/ Abort
  \/ Commit
  \/ RequestUpdateOne
  \/ UpdateOne
  \/ Timeout

Spec == Init /\ [][Next]_vars

\* validation alone, over every shape of an operation
ValidationSpec == Init /\ [][RequestTransaction(ValidatedBodies)]_vars

\* the server in any environment: DEBUG, the file of /openapi.yml and the
\* readPreference of the connection string are what the deployment sets
ServerInit ==
  /\ Started
  /\ debug \in BOOLEAN
  /\ openapi \in BOOLEAN
  /\ readPreference \in {"secondaryPreferred", "primary"}

(***************************************************************************)
(* Requests one after the other: once a request is answered and its        *)
(* handler has returned, the client sends the next one.                    *)
(***************************************************************************)
MaxRequests == 3

NextRequest ==
  /\ pc = "done"
  /\ requests + 1 < MaxRequests
  /\ previous' = [endpoint |-> endpoint, body |-> body, response |-> response,
                  indexes |-> indexes]
  /\ requests' = requests + 1
  /\ pc' = "idle"
  /\ response' = NoResponse
  /\ calls' = <<>>
  /\ thrown' = ""
  /\ threw' = FALSE
  /\ UNCHANGED <<store, nextId, requestVars, sessionVars, txn, snapshot, view,
                 loopVars, secondary, indexes, otherWrites, idsToUpdate,
                 updateResult>>

\* requests to the index endpoints and to delete-many, one after the other
SequenceNext ==
  \/ \E path \in {"/v0/create-index", "/v0/drop-index", "/v0/delete-many"} :
       RequestSingle(path)
  \/ HandleCreateIndex
  \/ HandleDropIndex
  \/ HandleDeleteMany
  \/ Timeout
  \/ NextRequest

SequenceSpec == Init /\ [][SequenceNext]_vars

(***************************************************************************)
(* One transaction request whose store calls all return in the end: every  *)
(* store call and every step of withTransaction that can make progress     *)
(* eventually does.  The timer of the timeout middleware may fire or not.  *)
(***************************************************************************)
TransactionNext ==
  \/ RequestTransaction(ServerTransactionBodies)
  \/ FindOneAndUpdate
  \/ InsertOne
  \/ ReadBack
  \/ DeleteOne
  \/ Abort
  \/ Commit
  \/ Timeout

StoreCallsReturn ==
  /\ WF_vars(FindOneAndUpdate)
  /\ WF_vars(InsertOne)
  /\ WF_vars(ReadBack)
  /\ WF_vars(DeleteOne)
  /\ WF_vars(Abort)
  /\ WF_vars(Commit)

LiveSpec == Init /\ [][TransactionNext]_vars /\ StoreCallsReturn

(***************************************************************************)
(* Two transaction requests in flight.  Handlers run on one thread and     *)
(* give way to each other where they await a store call; what a handler    *)
(* holds in its parameters, closures and session stays with it.            *)
(***************************************************************************)
\* what the running request holds
Locals ==
  [pc |-> pc, endpoint |-> endpoint, body |-> body, response |-> response,
   session |-> session, txn |-> txn, snapshot |-> snapshot, view |-> view,
   attempt |-> attempt, index |-> index,
   operationResults |-> operationResults, insertedId |-> insertedId,
   thrown |-> thrown, threw |-> threw, calls |-> calls, store0 |-> store0,
   credentials |-> credentials,
   withTransactionOptions |-> withTransactionOptions]

\* mutant: `operationResults` is one array of the module
Switch_SharedResults ==
  /\ suspended' = Locals
  /\ pc' = suspended.pc
  /\ endpoint' = suspended.endpoint
  /\ body' = suspended.body
  /\ response' = suspended.response
  /\ session' = suspended.session
  /\ txn' = suspended.txn
  /\ snapshot' = suspended.snapshot
  /\ view' = suspended.view
  /\ attempt' = suspended.attempt
  /\ index' = suspended.index
  /\ insertedId' = suspended.insertedId
  /\ thrown' = suspended.thrown
  /\ threw' = suspended.threw
  /\ calls' = suspended.calls
  /\ store0' = suspended.store0
  /\ credentials' = suspended.credentials
  /\ withTransactionOptions' = suspended.withTransactionOptions
  /\ UNCHANGED <<operationResults, store, nextId, sessionsStarted, debug,
                 openapi, readPreference, handleVars, serverVars>>

\* the running handler awaits and the other request runs: it arrives, or
\* goes on from the await it stood at
Switch ==
  /\ suspended' = Locals
  /\ pc' = suspended.pc
  /\ endpoint' = suspended.endpoint
  /\ body' = suspended.body
  /\ response' = suspended.response
  /\ session' = suspended.session
  /\ txn' = suspended.txn
  /\ snapshot' = suspended.snapshot
  /\ view' = suspended.view
  /\ attempt' = suspended.attempt
  /\ index' = suspended.index
  /\ operationResults' = suspended.operationResults
  /\ insertedId' = suspended.insertedId
  /\ thrown' = suspended.thrown
  /\ threw' = suspended.threw
  /\ calls' = suspended.calls
  /\ store0' = suspended.store0
  /\ credentials' = suspended.credentials
  /\ withTransactionOptions' = suspended.withTransactionOptions
  /\ UNCHANGED <<store, nextId, sessionsStarted, debug, openapi,
                 readPreference, handleVars, serverVars>>

ConcurrentNext ==
  \/ RequestTransaction(ServerTransactionBodies)
  \/ FindOneAndUpdate
  \/ InsertOne
  \/ ReadBack
  \/ DeleteOne
  \/ Abort
  \/ Commit
  \/ Timeout
  \/ Switch

ConcurrentSpec == Init /\ [][ConcurrentNext]_vars

\* one request to any path, with or without credentials
ServerNext ==
  \/ OpenApi
  \/ BasicAuth
  \/ \E path \in PostPaths \ {"/v0/transaction"} :
       RequestSingle(path)
  \/ \E path \in {"/", "/v0/collections"} : RequestGet(path)
  \/ RequestTransaction(ServerTransactionBodies)
  \/ FindOneAndUpdate
  \/ InsertOne
  \/ ReadBack
  \/ DeleteOne
  \/ Abort
  \/ Commit
  \/ UpdateOne
  \/ HandleFind
  \/ HandleFindOne
  \/ HandleCount
  \/ HandleInsertOne
  \/ HandleFindInserted
  \/ HandleInsertMany
  \/ HandleFindInsertedMany
  \/ HandleFindToUpdate
  \/ HandleUpdateMany
  \/ HandleFindUpdated
  \/ HandleDeleteOne
  \/ HandleDeleteMany
  \/ HandleCreateIndex
  \/ HandleDropIndex
  \/ HandleStats
  \/ HandleListCollections
  \/ Replicate
  \/ OtherDeleteMany
  \/ Timeout

ServerSpec == ServerInit /\ [][ServerNext]_vars

\* one request to POST /v0/update-many while other requests update single
\* documents of the same collection
UpdateManyNext ==
  \/ RequestSingle("/v0/update-many")
  \/ HandleFindToUpdate
  \/ HandleUpdateMany
  \/ HandleFindUpdated
  \/ OtherUpdateOne
  \/ Replicate
  \/ Timeout

UpdateManySpec == ServerInit /\ [][UpdateManyNext]_vars

(***************************************************************************)
(* The life of the process: startServer awaits initMongoDB and then        *)
(* serves; SIGINT closes the client and exits.                             *)
(***************************************************************************)
\* what the steps of startup and shutdown leave alone
served ==
  <<store, nextId, pc, endpoint, body, store0, credentials,
    withTransactionOptions, debug, openapi, readPreference, response,
    sessionVars, txn, snapshot, view, loopVars, thrown, threw, calls,
    serverVars, suspended>>

\* initMongoDB up to `client = new MongoClient(...)`; when MONGODB_URL or
\* DB_NAME is unset it throws, startServer rejects and nothing listens
InitMongoDB ==
  /\ process = "starting"
  /\ \E configured \in BOOLEAN :
       IF configured
         THEN client' = client + 1 /\ process' = "connecting"
         ELSE process' = "exited" /\ UNCHANGED client
  /\ UNCHANGED <<db, closed, served>>

\* `await client.connect(); db = client.db(dbName)`, or process.exit(1)
Connect ==
  /\ process = "connecting"
  /\ \E connected \in BOOLEAN :
       IF connected
         THEN db' = client /\ process' = "connected"
         ELSE process' = "exited" /\ UNCHANGED db
  /\ UNCHANGED <<client, closed, served>>

\* mutant: serve() without awaiting initMongoDB
Serve_Early ==
  /\ process \in {"starting", "connecting", "connected"}
  /\ process' = "listening"
  /\ UNCHANGED <<client, db, closed, served>>

\* startServer after `await initMongoDB()`: serve()
Serve ==
  /\ process = "connected"
  /\ process' = "listening"
  /\ UNCHANGED <<client, db, closed, served>>

\* the SIGINT handler up to `await client.close()`
Sigint ==
  /\ process # "exited"
  /\ ~closed
  /\ IF client # 0
       THEN closed' = TRUE /\ UNCHANGED process
       ELSE process' = "exited" /\ UNCHANGED closed
  /\ UNCHANGED <<client, db, served>>

\* the SIGINT handler after client.close(): process.exit(0)
Exit ==
  /\ closed
  /\ process # "exited"
  /\ process' = "exited"
  /\ UNCHANGED <<client, db, closed, served>>

\* the requests the listening server takes and the steps of their handlers
Serving == process = "listening" /\ ServerNext

ProcessInit ==
  /\ Launched
  /\ debug \in BOOLEAN
  /\ openapi \in BOOLEAN
  /\ readPreference \in {"secondaryPreferred", "primary"}

ProcessNext ==
  \/ InitMongoDB
  \/ Connect
  \/ Serve
  \/ Sigint
  \/ Exit
  \/ Serving

ProcessSpec == ProcessInit /\ [][ProcessNext]_vars

(***************************************************************************)
(* Properties.                                                             *)
(***************************************************************************)
IsTransaction == endpoint = "/v0/transaction"
Operations == body.operations
Accepted == IsTransaction /\ txn # "none"
Ended == pc = "done"

InsertsAmong(operations, n) ==
  Cardinality({j \in 1..n : operations[j].type.s = "insertOne"})

\* what one operation does to a database, `id` being the _id an insert gets
EffectOf(database, op, id) ==
  CASE op.type.s = "insertOne" ->
         [database EXCEPT ![op.collection.s] =
            @ \cup {[_id |-> id, name |-> op.document.s, value |-> op.document.n]}]
    [] op.type.s = "findOneAndUpdate" ->
         LET found == {d \in database[op.collection.s] : d.name = op.filter.s}
             hit == CHOOSE d \in found : \A e \in found : d._id <= e._id
         IN  IF found = {} THEN database
             ELSE [database EXCEPT ![op.collection.s] =
                     (@ \ {hit}) \cup {[hit EXCEPT !.value = @ + op.update.n]}]
    [] op.type.s = "deleteOne" ->
         LET found == {d \in database[op.collection.s] : d.name = op.filter.s}
             hit == CHOOSE d \in found : \A e \in found : d._id <= e._id
         IN  IF found = {} THEN database
             ELSE [database EXCEPT ![op.collection.s] = @ \ {hit}]

RECURSIVE EffectsOf(_, _, _, _)
\* the first n operations applied in order to db, the first insert getting id
EffectsOf(operations, n, database, id) ==
  IF n = 0 THEN database
  ELSE EffectOf(EffectsOf(operations, n - 1, database, id), operations[n],
                id + InsertsAmong(operations, n - 1))

\* the effects of the whole batch, as the attempt that committed made them
AllEffects ==
  EffectsOf(Operations, Len(Operations), store0,
            nextId - InsertsAmong(Operations, Len(Operations)))

\* C1 as stated: once the request has ended, if a store call of an
\* operation threw the store holds no effect of the batch, and if none threw
\* (and the commit went through) it holds all of them.
C1_AsStated ==
  (Accepted /\ Ended) =>
     /\ threw => store = store0
     /\ (~threw /\ txn = "committed") => store = AllEffects

\* C1 as amended: the committed documents stay those of the request's
\* arrival for as long as the transaction is running and after it has been
\* aborted (whatever the attempts before did), and once it has committed they
\* are the effects of all n operations, in order; a handler that has ended has
\* either committed or aborted.
C1_Atomicity ==
  IsTransaction =>
    /\ txn \in {"none", "active", "aborted"} => store = store0
    /\ txn = "committed" => (Ended /\ store = AllEffects)
    /\ (Accepted /\ Ended) => txn \in {"committed", "aborted"}

\* an insert that had succeeded is rolled back by a later throw
C1_Witness ==
  /\ Accepted /\ Ended /\ txn = "aborted"
  /\ Len(operationResults) >= 1
  /\ operationResults[1].type = "insertOne"
  /\ store = store0

\* a descriptor that is malformed: its type is outside the enum, its
\* collection is no string, or a field its type requires is absent or falsy
RequiredFields(type) ==
  CASE type = "insertOne" -> {"document"}
    [] type = "findOneAndUpdate" -> {"filter", "update"}
    [] type = "deleteOne" -> {"filter"}
    [] OTHER -> {}

SchemaValid(op) ==
  /\ op.type \in {Str("insertOne"), Str("findOneAndUpdate"), Str("deleteOne")}
  /\ op.collection.k = "string"

Given(v) == v.k # "undefined"
GivenAndTruthy(v) == v.k \in {"object", "string"} /\ v # Str("")

Malformed(op) ==
  \/ ~SchemaValid(op)
  \/ \E f \in RequiredFields(op.type.s) : ~GivenAndTruthy(op[f])

\* C2: a request answered 400 has made no store call and opened no session,
\* and a transaction batch with a malformed descriptor at any position is
\* answered 400 with no operation executed, the valid ones before it included.
C2_ValidationPrecedesExecution ==
  /\ response.status = 400 =>
       /\ calls = <<>> /\ sessionsStarted = 0 /\ txn = "none"
       /\ store = store0 /\ operationResults = <<>>
  /\ (IsTransaction /\ \E j \in 1..Len(Operations) : Malformed(Operations[j])) =>
       /\ Ended /\ response.status = 400
       /\ calls = <<>> /\ sessionsStarted = 0

\* a valid operation followed by a malformed one: nothing was executed
C2_Witness ==
  /\ IsTransaction /\ Ended /\ response.status = 400
  /\ Len(Operations) = 2
  /\ ~Malformed(Operations[1]) /\ Operations[1].type.s = "insertOne"
  /\ Malformed(Operations[2])
  /\ calls = <<>> /\ store = store0

\* C3: a 200 response to a transaction has one entry per submitted operation,
\* operationCount is that length, and entry i echoes the type and the
\* collection of operation i.
C3_OrderPreserved ==
  (IsTransaction /\ response.status = 200) =>
    /\ Len(response.data) = Len(Operations)
    /\ response.operationCount = Len(Operations)
    /\ \A j \in 1..Len(Operations) :
         /\ response.data[j].type = Operations[j].type.s
         /\ response.data[j].collection = Operations[j].collection.s

\* a 200 response to two operations of different types and collections
C3_Witness ==
  /\ IsTransaction /\ response.status = 200
  /\ Len(Operations) = 2
  /\ Operations[1].type.s = "deleteOne" /\ Operations[1].collection.s = "c2"
  /\ Operations[2].type.s = "insertOne" /\ Operations[2].collection.s = "c1"
  /\ response.data[1].type = "deleteOne" /\ response.data[2].type = "insertOne"

RequiresText(type) ==
  CASE type = "insertOne" -> "insertOne requires document field"
    [] type = "findOneAndUpdate" ->
         "findOneAndUpdate requires filter and update fields"
    [] type = "deleteOne" -> "deleteOne requires filter field"
    [] OTHER -> ""

Validated == IsTransaction /\ pc # "idle" /\ Len(Operations) >= 1
AllSchemaValid == \A j \in 1..Len(Operations) : SchemaValid(Operations[j])

\* C4 as stated: a descriptor passes validation iff the fields its type
\* requires are present.
C4_AsStated ==
  (Validated /\ AllSchemaValid) =>
    (response.status # 400
       <=> \A j \in 1..Len(Operations) :
             \A f \in RequiredFields(Operations[j].type.s) : Given(Operations[j][f]))

\* C4 as amended: a batch of schema-valid descriptors passes validation iff
\* every field required by each descriptor's own type is present and truthy;
\* otherwise it is answered 400 with `Operation <i>: <type> requires ...`
\* for the first descriptor i with such a field absent or falsy.  Fields that
\* only other types require play no part.
C4_RequiredFields ==
  (Validated /\ AllSchemaValid) =>
    LET bad == {j \in 1..Len(Operations) :
                  \E f \in RequiredFields(Operations[j].type.s) :
                     ~GivenAndTruthy(Operations[j][f])}
    IN  IF bad = {}
          THEN response.status # 400 /\ txn # "none"
          ELSE /\ response.status = 400
               /\ response.has = {"error"}
               /\ response.error.index + 1 \in bad
               /\ \A j \in bad : response.error.index + 1 <= j
               /\ response.error.text =
                    RequiresText(Operations[response.error.index + 1].type.s)

\* a filter that is present but falsy is rejected
C4_Witness ==
  /\ Validated /\ AllSchemaValid /\ response.status = 400
  /\ \E j \in 1..Len(Operations) :
       /\ Operations[j].type.s = "deleteOne"
       /\ Operations[j].filter = Null
       /\ response.error.index = j - 1
       /\ response.error.text = "deleteOne requires filter field"

\* C5: an empty operations list is answered 400 with exactly
\* "At least one operation is required" and makes no store call.
C5_EmptyBatchRejected ==
  (IsTransaction /\ Operations = <<>>) =>
    /\ Ended
    /\ response.status = 400
    /\ response.has = {"error"}
    /\ response.error = [index |-> -1, text |-> "At least one operation is required"]
    /\ calls = <<>> /\ sessionsStarted = 0 /\ txn = "none" /\ store = store0

C5_Witness ==
  /\ IsTransaction /\ Operations = <<>> /\ Ended
  /\ response.error.text = "At least one operation is required"

\* C6: a batch with a descriptor whose type is outside the three is answered
\* 400 before any store call, and the loop only dispatches on the three.
C6_ClosedTypes ==
  /\ (IsTransaction /\ \E j \in 1..Len(Operations) :
        Operations[j].type \notin
          {Str("insertOne"), Str("findOneAndUpdate"), Str("deleteOne")}) =>
       /\ Ended /\ response.status = 400
       /\ calls = <<>> /\ sessionsStarted = 0 /\ txn = "none"
  /\ pc \in {"operation", "readBack"} =>
       /\ index \in 1..Len(Operations)
       /\ Operations[index].type.s \in {"insertOne", "findOneAndUpdate", "deleteOne"}
  /\ \A j \in 1..Len(calls) :
       calls[j].fn \in {"insertOne", "findOne", "findOneAndUpdate", "deleteOne"}

\* a valid insert followed by an operation of an unknown type
C6_Witness ==
  /\ IsTransaction /\ Ended /\ response.status = 400
  /\ Len(Operations) = 2
  /\ Operations[1].type.s = "insertOne" /\ ~Malformed(Operations[1])
  /\ Operations[2].type = Str("updateOne")
  /\ response.issues = <<Issue(1, "type", "Invalid enum value")>>

\* C7 as stated: when an operation of an accepted batch has thrown, the
\* client receives status 500 with an error body and no data list (read
\* for the requests the timeout middleware has not answered before).
C7_AsStated ==
  (Accepted /\ Ended /\ threw /\ response # TimedOut) =>
    /\ response.status = 500
    /\ response.has = {"error"}

\* C7 as amended: when the transaction of an accepted batch ends aborted (an
\* operation or the commit threw and withTransaction did not retry it), the
\* client receives one error response and no data list: 500 with
\* "Internal server error", or the 408 of the timeout middleware when that
\* fired first.  A response that carries a data list has status 200, belongs
\* to a committed transaction and has one entry per operation, each made by
\* the attempt that committed.  A response once sent never changes.
C7_NoPartialResult ==
  /\ (Accepted /\ Ended /\ txn = "aborted") =>
       /\ response \in {InternalError, TimedOut}
       /\ response.has = {"error"}
       /\ response.data = <<>>
  /\ (IsTransaction /\ "data" \in response.has) =>
       /\ response.status = 200
       /\ txn = "committed"
       /\ Len(response.data) = Len(Operations)
       /\ response.data = operationResults
  /\ (IsTransaction /\ response.status \in {408, 500}) => response.has = {"error"}

\* the second operation threw after the first had produced its result:
\* the client gets the 500 and nothing of the list
C7_Witness ==
  /\ Accepted /\ Ended /\ txn = "aborted" /\ threw
  /\ Len(Operations) = 2 /\ Len(operationResults) = 1
  /\ response = InternalError

\* the result of the operation the loop has just executed
JustExecuted(type) ==
  /\ IsTransaction /\ pc \in {"operation", "commit"} /\ txn = "active"
  /\ index >= 2 /\ Len(operationResults) = index - 1
  /\ Operations[index - 1].type.s = type

LastOperation == Operations[index - 1]
LastResult == operationResults[index - 1]

\* C8: the data of a findOneAndUpdate result is the matched document as it
\* is after the update (in the transaction right after the call, in the store
\* for /v0/update-one), or null when nothing matched; it is never the
\* document as it was before.
C8_PostImage ==
  /\ JustExecuted("findOneAndUpdate") =>
       IF LastResult.data = NullDoc
         THEN {d \in view[LastOperation.collection.s] :
                 d.name = LastOperation.filter.s} = {}
         ELSE /\ LastResult.data \in view[LastOperation.collection.s]
              /\ LastResult.data.name = LastOperation.filter.s
  /\ (IsTransaction /\ response.status = 200) =>
       \A j \in 1..Len(Operations) :
         (Operations[j].type.s = "findOneAndUpdate"
            /\ response.data[j].data # NullDoc
            /\ \A m \in 1..Len(Operations) :
                 m # j => Operations[m].type.s = "insertOne") =>
           /\ response.data[j].data \in store[Operations[j].collection.s]
           /\ response.data[j].data \notin store0[Operations[j].collection.s]
  /\ \A j \in 2..Len(calls) :
       calls[j - 1].fn = "findOneAndUpdate" => calls[j].fn # "findOne"
  /\ (endpoint = "/v0/update-one" /\ response.status = 200) =>
       /\ calls = <<[fn |-> "findOneAndUpdate", session |-> 0]>>
       /\ IF response.doc = NullDoc
            THEN {d \in store0[body.single.collection.s] :
                    d.name = body.single.filter.s} = {}
            ELSE /\ response.doc \in store[body.single.collection.s]
                 /\ \E d \in store0[body.single.collection.s] :
                      /\ d._id = response.doc._id
                      /\ d.name = body.single.filter.s
                      /\ response.doc.value = d.value + body.single.update.n

\* value 0 with $inc 1 returns 1, though the client asked for the pre-image
C8_Witness ==
  /\ JustExecuted("findOneAndUpdate")
  /\ LastOperation.options = ReturnBefore
  /\ LastResult.data = [_id |-> 1, name |-> "a", value |-> 1]

\* C9: the data of an insertOne result is the inserted document, read back
\* through the session of the insert: it is not null, its _id is the
\* result's insertedId and its fields are those submitted; the findOne runs
\* in the session the insertOne before it ran in.
C9_InsertReadBack ==
  /\ IsTransaction =>
       \A j \in 1..Len(operationResults) :
         operationResults[j].type = "insertOne" =>
           /\ Operations[j].type.s = "insertOne"
           /\ operationResults[j].data # NullDoc
           /\ operationResults[j].data._id = operationResults[j].insertedId
           /\ operationResults[j].insertedId > 0
           /\ operationResults[j].data.name = Operations[j].document.s
           /\ operationResults[j].data.value = Operations[j].document.n
  /\ \A j \in 1..Len(calls) :
       calls[j].fn = "findOne" =>
         /\ j > 1
         /\ calls[j - 1].fn = "insertOne"
         /\ calls[j].session = calls[j - 1].session
         /\ calls[j].session # 0

\* the document read back is not committed yet
C9_Witness ==
  /\ JustExecuted("insertOne")
  /\ LastResult.data \in view[LastOperation.collection.s]
  /\ LastResult.data \notin store[LastOperation.collection.s]
  /\ LastResult.data.name = LastOperation.document.s

\* C10: a deleteOne of a batch that returns removes at most one document, one
\* that matches its filter, and its result carries deletedCount alone: 1 when
\* a document matched, 0 when none did; in both cases the loop goes on to the
\* next operation (or to the commit) and nothing is thrown.
C10_DeleteOne ==
  [][(/\ IsTransaction /\ pc = "operation"
      /\ operation.type.s = "deleteOne"
      /\ pc' # pc)
     =>
     \/ pc' = "abort" /\ view' = view
     \/ LET c == operation.collection.s
            matched == {d \in view[c] : d.name = operation.filter.s}
            result == operationResults'[index]
        IN  /\ pc' = IF index = Len(Operations) THEN "commit" ELSE "operation"
            /\ index' = index + 1
            /\ thrown' = "" /\ txn' = "active"
            /\ Len(operationResults') = index
            /\ DOMAIN result = {"type", "collection", "deletedCount"}
            /\ result.deletedCount = IF matched = {} THEN 0 ELSE 1
            /\ view'[c] \subseteq view[c]
            /\ (view[c] \ view'[c]) \subseteq matched
            /\ Cardinality(view[c] \ view'[c]) = result.deletedCount
            /\ \A o \in Collections \ {c} : view'[o] = view[o]
            /\ store' = store]_vars

\* a deleteOne that matched nothing, and the operation after it executed
C10_Witness ==
  /\ IsTransaction /\ txn = "active"
  /\ Len(operationResults) = 2
  /\ operationResults[1].type = "deleteOne"
  /\ operationResults[1].deletedCount = 0
  /\ operationResults[2].type = "findOneAndUpdate"

\* the client's transactionOptions as an object: nothing when absent or null
ClientTransactionOptions ==
  IF body.transactionOptions.k = "object"
    THEN body.transactionOptions.o ELSE EmptyOptions

\* C11: the options session.withTransaction is given are the client's
\* transactionOptions over {readPreference: 'primary'}: readPreference is
\* 'primary' when the client gives none and the client's value when it gives
\* one, every other key of the client is passed as given, and there is no
\* further key; a rejected batch reaches no withTransaction.
C11_TransactionOptionsMerge ==
  /\ Accepted =>
       /\ DOMAIN withTransactionOptions =
            DOMAIN ClientTransactionOptions \cup {"readPreference"}
       /\ withTransactionOptions["readPreference"] =
            IF "readPreference" \in DOMAIN ClientTransactionOptions
              THEN ClientTransactionOptions["readPreference"]
              ELSE Str("primary")
       /\ \A key \in DOMAIN ClientTransactionOptions :
            withTransactionOptions[key] = ClientTransactionOptions[key]
  /\ (IsTransaction /\ txn = "none") => withTransactionOptions = EmptyOptions

\* the client's readPreference replaces the default, its other key is kept
C11_Witness ==
  /\ Accepted
  /\ ClientTransactionOptions =
       [readPreference |-> Str("nearest"), maxCommitTimeMS |-> Str("5000")]
  /\ withTransactionOptions["readPreference"] = Str("nearest")
  /\ withTransactionOptions["maxCommitTimeMS"] = Str("5000")

\* C12: a request without valid Basic credentials, to any path and with any
\* body, is answered 401, and no handler runs for it: no store call is made,
\* no session is started and the store is as it was.
C12_AuthGate ==
  (pc # "idle" /\ credentials \in {"invalid", "none"}) =>
    /\ pc = "done"
    /\ response.status = 401
    /\ calls = <<>> /\ sessionsStarted = 0 /\ txn = "none"
    /\ store = store0

\* the fields each single-operation endpoint is said to require
RequiredOf(path) ==
  CASE path = "/v0/insert-one" -> {"document"}
    [] path \in {"/v0/update-one", "/v0/update-many"} -> {"filter", "update"}
    [] path \in {"/v0/delete-one", "/v0/delete-many"} -> {"filter"}
    [] path = "/v0/create-index" -> {"keys"}
    [] path = "/v0/drop-index" -> {"index"}
    [] OTHER -> {}

\* C13: a request with valid credentials to a single-operation endpoint whose
\* body lacks a field the endpoint requires (absent or falsy) is answered 400
\* and makes no store call.
C13_RequiredFields ==
  (/\ pc # "idle" /\ credentials = "valid"
   /\ \E f \in RequiredOf(endpoint) : ~GivenAndTruthy(single[f]))
  =>
    /\ calls = <<>>
    /\ pc = "done" => response.status = 400

RECURSIVE FailingOfOperations(_, _)
\* the paths of the fields of the first n operations that the schema
\* refuses, in order
FailingOfOperations(operations, n) ==
  IF n = 0 THEN <<>>
  ELSE FailingOfOperations(operations, n - 1)
       \o (IF operations[n].type \in
                {Str("insertOne"), Str("findOneAndUpdate"), Str("deleteOne")}
             THEN <<>>
             ELSE <<"operations." \o ToString(n - 1) \o ".type">>)
       \o (IF operations[n].collection.k = "string"
             THEN <<>>
             ELSE <<"operations." \o ToString(n - 1) \o ".collection">>)

\* the paths of the fields of the body that the schema of its endpoint refuses
FailingFields ==
  IF IsTransaction THEN FailingOfOperations(Operations, Len(Operations))
  ELSE (IF single.collection.k = "string" THEN <<>> ELSE <<"collection">>)
       \o (IF endpoint = "/v0/insert-many" /\ single.documents.k # "array"
             THEN <<"documents">> ELSE <<>>)

RECURSIVE EntriesJoined(_, _, _)
\* '<path>: <reason>' for the first n paths, joined by ', '
EntriesJoined(paths, reasons, n) ==
  IF n = 0 THEN ""
  ELSE (IF n = 1 THEN "" ELSE EntriesJoined(paths, reasons, n - 1) \o ", ")
       \o paths[n] \o ": " \o reasons[n].message

\* C14: a body that fails the schema of its endpoint is answered 400 before
\* any store call, and the error is 'Validation error: ' followed by one
\* '<field path>: <reason>' for every failing field, all of them, joined by
\* ', '; the reason is the one zod gives, which for a `documents` that is no
\* array names the array.
C14_ValidationErrorShape ==
  (/\ pc # "idle" /\ credentials = "valid" /\ endpoint \in PostPaths
   /\ FailingFields # <<>>)
  =>
    /\ pc = "done" /\ calls = <<>>
    /\ response.status = 400
    /\ "error" \in response.has /\ response.has \subseteq {"error", "debug"}
    /\ Len(response.issues) = Len(FailingFields)
    /\ response.error.index = -1
    /\ response.error.text =
         "Validation error: "
           \o EntriesJoined(FailingFields, response.issues, Len(FailingFields))
    /\ \A j \in 1..Len(FailingFields) :
         FailingFields[j] = "documents" =>
           response.issues[j].message \in
             {"Required", "Expected array, received string"}

\* a missing collection and a documents that is no array: both are named
C14_Witness ==
  /\ endpoint = "/v0/insert-many" /\ pc = "done"
  /\ single.collection = Undefined /\ single.documents = Str("not an array")
  /\ response.status = 400
  /\ response.error.text =
       "Validation error: collection: Required, documents: Expected array, received string"

\* the request ended on an error of the store: withTransaction rethrew, or a
\* store call of a single-operation handler threw
StoreFailed ==
  /\ pc = "done"
  /\ \/ IsTransaction /\ txn = "aborted"
     \/ ~IsTransaction /\ threw

C16_InsertOneReadBack ==
  (endpoint = "/v0/insert-one" /\ pc = "done" /\ response.status = 200) =>
    /\ response.doc # NullDoc
    /\ response.doc._id = insertedId
    /\ response.doc.name = single.document.s
    /\ response.doc.value = single.document.n

\* the documents the filter of the request matched when the request arrived
MatchedBefore == Matching(store0, single.collection.s, single.filter)

\* C17: with no other request writing, a 200 response to POST /v0/update-many
\* carries exactly the documents that matched the filter before the update,
\* each as the update leaves it, and the store's modifiedCount; when the
\* update changes every matched document the two agree in number.
C17_UpdateMany ==
  (/\ endpoint = "/v0/update-many" /\ pc = "done" /\ response.status = 200
   /\ otherWrites = 0)
  =>
    /\ response.data =
         SortById({[d EXCEPT !.value = @ + single.update.n] : d \in MatchedBefore})
    /\ response.count =
         (IF single.update.n = 0 THEN 0 ELSE Cardinality(MatchedBefore))
    /\ single.update.n # 0 => Len(response.data) = response.count

\* this request is a create-index with the collection, keys and options of
\* the request before it, which was answered 200
Repeated ==
  /\ requests >= 1
  /\ endpoint = "/v0/create-index"
  /\ previous.endpoint = endpoint
  /\ previous.body = body
  /\ previous.response.status = 200

C19_OneSession ==
  Accepted =>
    /\ sessionsStarted = 1
    /\ txn = "active" => session = sessionsStarted
    /\ \A j \in 1..Len(calls) :
         /\ calls[j].fn \in {"insertOne", "findOne", "findOneAndUpdate", "deleteOne"}
         /\ calls[j].session = sessionsStarted

\* a batch of two operations, the second one sent with options {session: null},
\* has made three store calls in its second attempt
C19_Witness ==
  /\ Accepted /\ attempt = 2
  /\ Len(Operations) = 2
  /\ Operations[1].type = Str("insertOne")
  /\ Operations[2].options = OwnSession
  /\ Len(calls) = 3
  /\ calls[3] = [fn |-> "deleteOne", session |-> 1]

\* the store calls one operation makes, in order
CallsOf(op) ==
  IF op.type.s = "insertOne" THEN <<"insertOne", "findOne">> ELSE <<op.type.s>>

RECURSIVE IssuedBy(_, _)
\* the store calls the first n operations make when none throws
IssuedBy(operations, n) ==
  IF n = 0 THEN <<>>
  ELSE IssuedBy(operations, n - 1) \o CallsOf(operations[n])

\* the store calls of this attempt, by name
Issued == [j \in 1..Len(calls) |-> calls[j].fn]

\* the calls of this attempt are those of the operations before `index`, all
\* of them returned, and of the operation at `index` as far as it has come
InInputOrder ==
  CASE pc = "operation" -> Issued = IssuedBy(Operations, index - 1)
    [] pc = "readBack" ->
         Issued = IssuedBy(Operations, index - 1) \o <<"insertOne">>
    [] pc = "commit" ->
         index = Len(Operations) + 1 /\ Issued = IssuedBy(Operations, Len(Operations))
    [] pc = "abort" ->
         \E k \in 1..Len(CallsOf(operation)) :
           Issued = IssuedBy(Operations, index - 1)
                      \o SubSeq(CallsOf(operation), 1, k)
    [] OTHER ->
         \E k \in 0..Len(IssuedBy(Operations, Len(Operations))) :
           Issued = SubSeq(IssuedBy(Operations, Len(Operations)), 1, k)

\* C20: within one attempt of a batch the store calls are issued operation
\* by operation in input order, those of operation i+1 only after those of
\* operation i have returned; once a store call has thrown, the attempt
\* issues no further call (the next call is the first of a retry, if any).
C20_SequentialOrder ==
  /\ [](Accepted => InInputOrder)
  /\ [][(Accepted /\ thrown # "") =>
          \/ calls' = calls
          \/ calls' = <<>> /\ attempt' = attempt + 1 /\ index' = 1]_vars

\* the first operation's two calls have returned and the call of the second
\* operation has thrown
C20_Witness ==
  /\ Accepted /\ pc = "abort" /\ index = 2
  /\ thrown = "error"
  /\ Len(Operations) = 2
  /\ Issued = <<"insertOne", "findOne", "deleteOne">>

\* the entry operation `op` pushes when it runs on db, an insert getting id
ExpectedResult(database, op, id) ==
  LET found == {d \in database[op.collection.s] : d.name = op.filter.s}
      hit == CHOOSE d \in found : \A e \in found : d._id <= e._id
  IN  CASE op.type.s = "insertOne" ->
             [type |-> "insertOne", collection |-> op.collection.s,
              data |-> [_id |-> id, name |-> op.document.s,
                        value |-> op.document.n],
              insertedId |-> id]
        [] op.type.s = "findOneAndUpdate" ->
             [type |-> "findOneAndUpdate", collection |-> op.collection.s,
              data |-> IF found = {} THEN NullDoc
                       ELSE [hit EXCEPT !.value = @ + op.update.n]]
        [] op.type.s = "deleteOne" ->
             [type |-> "deleteOne", collection |-> op.collection.s,
              deletedCount |-> IF found = {} THEN 0 ELSE 1]

\* entry j of `results` is what operation j returns on the documents the
\* operations before it left, starting from those the attempt's transaction
\* began with, the first insert of the attempt getting id
SeesEarlier(results, id) ==
  \A j \in 1..Len(results) :
    results[j] =
      ExpectedResult(EffectsOf(Operations, j - 1, snapshot, id), Operations[j],
                     id + InsertsAmong(Operations, j - 1))

\* C21: each operation of a batch observes the effects of all the operations
\* before it in the batch: every entry collected by the running attempt, and
\* every entry of a 200 response, is what the operation returns on the
\* documents as the earlier operations left them.
C21_ReadYourWrites ==
  /\ (IsTransaction /\ txn = "active" /\ pc \in {"operation", "commit"}) =>
       SeesEarlier(operationResults,
                   nextId - InsertsAmong(Operations, index - 1))
  /\ (IsTransaction /\ response.status = 200) =>
       SeesEarlier(response.data,
                   nextId - InsertsAmong(Operations, Len(Operations)))

\* two increments of the same counter return 1 and 2
C21_Witness ==
  /\ IsTransaction /\ response.status = 200
  /\ Len(Operations) = 2
  /\ Operations[1] = Operations[2]
  /\ Operations[1].type.s = "findOneAndUpdate"
  /\ response.data[1].data = [_id |-> 1, name |-> "a", value |-> 1]
  /\ response.data[2].data = [_id |-> 1, name |-> "a", value |-> 2]

\* C22: a batch that has ended is Rejected, RolledBack or Committed; when its
\* transaction has committed the client has the 200 response with one entry
\* per operation, and a response other than 200 (400, 408, 500) means that
\* no effect of the batch is or becomes durable.
C22_TerminalStates ==
  IsTransaction =>
    /\ Ended => txn \in {"none", "aborted", "committed"}
    /\ txn = "committed" =>
         /\ response.status = 200
         /\ Len(response.data) = Len(Operations)
    /\ response.status \in {400, 408, 500} => store = store0

\* C23: every session opened for a batch is eventually ended, whether the
\* transaction commits, aborts, or the request is answered 408 first; a
\* handler that has returned has ended its session.
C23_SessionReleased ==
  /\ [](Ended => session = 0)
  /\ (session # 0) ~> (session = 0)

\* the timeout answered first and the session was ended afterwards
C23_Witness ==
  /\ IsTransaction /\ Ended
  /\ response.status = 408
  /\ sessionsStarted = 1 /\ session = 0

\* C24 as stated: every transaction, whatever transactionOptions the client
\* sent, is started with readPreference 'primary'.
C24_AsStated ==
  Accepted => withTransactionOptions["readPreference"] = Str("primary")

\* C24 as amended: every transaction is started with a readPreference of its
\* own, so that the connection's secondaryPreferred is never inherited; it is
\* 'primary' for every batch whose transactionOptions name no readPreference,
\* and it differs from 'primary' only by being the value the client named.
C24_PrimaryByDefault ==
  Accepted =>
    /\ "readPreference" \in DOMAIN withTransactionOptions
    /\ "readPreference" \notin DOMAIN ClientTransactionOptions =>
         withTransactionOptions["readPreference"] = Str("primary")
    /\ withTransactionOptions["readPreference"] # Str("primary") =>
         /\ "readPreference" \in DOMAIN ClientTransactionOptions
         /\ withTransactionOptions["readPreference"] =
              ClientTransactionOptions["readPreference"]

\* the connection reads secondaryPreferred, the client tunes another key, and
\* the transaction is started with 'primary'
C24_Witness ==
  /\ Accepted
  /\ readPreference = "secondaryPreferred"
  /\ ClientTransactionOptions = [maxCommitTimeMS |-> Str("5000")]
  /\ withTransactionOptions["readPreference"] = Str("primary")

\* the request names the empty string as its collection
EmptyCollection ==
  /\ credentials = "valid"
  /\ pc # "idle"
  /\ single.collection = Str("")

\* C25: a request whose collection is the empty string is rejected by
\* validation with 400 and never reaches a store call.
C25_EmptyCollectionRejected ==
  EmptyCollection => pc = "done" /\ response.status = 400 /\ calls = <<>>

\* the pre-read of update-many returns: idsToUpdate are the documents that
\* match the filter at that moment
PreRead ==
  (pc = "findToUpdate" /\ pc' = "updateMany") =>
    \E source \in ReadSources :
      idsToUpdate' =
        {d._id : d \in {e \in source[single.collection.s] :
                          single.filter.s = "" \/ e.name = single.filter.s}}

\* updateMany returns: it has changed the documents that match the filter at
\* that moment, whatever the pre-read found, and counted them
UpdateOfMatching ==
  (pc = "updateMany" /\ pc' = "findUpdated") =>
    LET now == {d \in store[single.collection.s] :
                  single.filter.s = "" \/ d.name = single.filter.s}
    IN  /\ store'[single.collection.s] =
             {IF d \in now THEN [d EXCEPT !.value = @ + single.update.n] ELSE d :
                d \in store[single.collection.s]}
        /\ updateResult' = (IF single.update.n = 0 THEN 0 ELSE Cardinality(now))

\* the re-read returns: data are the documents of the pre-read as they are
\* at that moment, modifiedCount is what updateMany counted
ReRead ==
  (pc = "findUpdated" /\ pc' = "done" /\ response'.status = 200) =>
    /\ \E source \in ReadSources :
         response'.data =
           SortById({d \in source[single.collection.s] : d._id \in idsToUpdate})
    /\ response'.count = updateResult

\* C26: the three store calls of update-many each act on the collection as
\* it is when they run; between them idsToUpdate and modifiedCount are kept
\* and the writes of other requests are not excluded, so that data is the
\* documents of the pre-read while modifiedCount counts the documents of
\* the updateMany.
C26_UpdateManyNotAtomic ==
  [][/\ PreRead
     /\ UpdateOfMatching
     /\ ReRead
     /\ pc \in {"updateMany", "findUpdated"} =>
          idsToUpdate' = idsToUpdate
     /\ pc = "findUpdated" => updateResult' = updateResult]_vars

\* reads from the primary, another request writing between the calls: a
\* document of data was not updated, a document that was updated is not in
\* data, and data is not modifiedCount long
C26_Witness ==
  /\ endpoint = "/v0/update-many"
  /\ pc = "done"
  /\ response.status = 200
  /\ readPreference = "primary"
  /\ otherWrites > 0
  /\ single.update.n = 1
  /\ \E i \in 1..Len(response.data) : response.data[i].value = 0
  /\ \E d \in store[single.collection.s] :
       d.value = 1 /\ d._id \notin idsToUpdate
  /\ Len(response.data) # response.count

\* a step of a request: its middleware or its handler moves, answers or
\* calls the store
RequestStep ==
  \/ pc' # pc
  \/ response' # response
  \/ calls' # calls
  \/ store' # store
  \/ session' # session

\* C27: `client` and `db` are assigned once, by initMongoDB, before the
\* server listens; no step of a request, whether it succeeds, fails
\* validation, meets a store error or times out, closes or reassigns them;
\* only the SIGINT handler closes the client.
C27_StableHandles ==
  /\ [](process = "listening" => client = 1 /\ db = client)
  /\ [][/\ client' # client => client = 0 /\ InitMongoDB
        /\ db' # db => db = 0 /\ Connect
        /\ closed' # closed => Sigint
        /\ RequestStep => UNCHANGED <<client, db, closed>>]_vars

\* a request met a store error and was answered 500 with the handles as
\* initMongoDB left them
C27_Witness ==
  /\ process = "listening"
  /\ pc = "done"
  /\ threw
  /\ response.status = 500
  /\ client = 1
  /\ db = 1
  /\ ~closed

\* the sessions the store calls of a request were issued with
SessionsOf(issued) == {issued[j].session : j \in 1..Len(issued)}

\* the _id the insert of a batch was given, 0 while it has none
InsertedBy(results) ==
  LET at == {j \in 1..Len(results) : results[j].type = "insertOne"}
  IN  IF at = {} THEN 0
      ELSE results[CHOOSE j \in at : \A k \in at : j <= k].insertedId

\* C28: with two transaction requests in flight, giving way to each other at
\* their store calls, each request issues its calls with the session it
\* opened, no session serves both, and the results a request collects and
\* returns are those of its own operations, in order, on the documents its
\* own transaction sees; no step of one request changes what the other
\* holds.
C28_RequestIsolation ==
  /\ [](/\ session # 0 => session # suspended.session
        /\ session # 0 => SessionsOf(calls) \subseteq {session}
        /\ SessionsOf(calls) \cap SessionsOf(suspended.calls) = {}
        /\ (IsTransaction /\ txn = "active" /\ pc \in {"operation", "commit"}) =>
             SeesEarlier(operationResults, InsertedBy(operationResults))
        /\ (IsTransaction /\ response.status = 200) =>
             /\ Len(response.data) = Len(Operations)
             /\ SeesEarlier(response.data, InsertedBy(response.data)))
  /\ [][suspended' # suspended => Switch]_vars

\* both requests stand between two store calls of their batches, each with
\* the result of its first operation and with a session of its own
C28_Witness ==
  /\ pc = "operation" /\ suspended.pc = "operation"
  /\ index = 2 /\ suspended.index = 2
  /\ Len(operationResults) = 1 /\ Len(suspended.operationResults) = 1
  /\ session # 0 /\ suspended.session # 0
  /\ calls # <<>> /\ suspended.calls # <<>>

\* C29: when withTransaction runs the callback again after a transient
\* error, the callback starts from an empty array: while an attempt runs the
\* array holds one entry for each operation that attempt has completed, and
\* the array of a 200 response holds one entry per operation, each the
\* result of that operation in the attempt that committed.
C29_RetrySafeResults ==
  IsTransaction =>
    /\ (txn = "active" /\ pc \in {"operation", "commit"}) =>
         Len(operationResults) = index - 1
    /\ (response.status = 200 /\ txn = "committed") =>
         /\ Len(response.data) = Len(Operations)
         /\ \A j \in 1..Len(Operations) :
              response.data[j] =
                ExpectedResult(
                  EffectsOf(Operations, j - 1, snapshot,
                            nextId - InsertsAmong(Operations, Len(Operations))),
                  Operations[j],
                  nextId - InsertsAmong(Operations, Len(Operations))
                    + InsertsAmong(Operations, j - 1))

\* the second attempt committed: the document it inserted has the _id after
\* the one the aborted attempt had inserted and returned
C29_Witness ==
  /\ IsTransaction
  /\ attempt = 2
  /\ txn = "committed"
  /\ response.status = 200
  /\ \E j \in 1..Len(response.data) :
       /\ response.data[j].type = "insertOne"
       /\ response.data[j].insertedId = 5

\* the options the store call of the operation the loop stands at is given
IssuedWith(op) ==
  CASE op.type.s = "findOneAndUpdate" -> FindOneAndUpdateOptions(op, session)
    [] op.type.s = "insertOne" -> InsertOneOptions(op, session)
    [] op.type.s = "deleteOne" -> DeleteOneOptions(op, session)

\* C30: whatever keys the options of an operation contain, `session` and
\* `returnDocument` among them, the store call of the operation is given the
\* session of the batch, and findOneAndUpdate is given returnDocument
\* 'after'; POST /v0/update-one gives findOneAndUpdate returnDocument 'after'
\* whatever its options say, and answers with the document as updated.
C30_OptionsOverridden ==
  /\ (IsTransaction /\ txn = "active" /\ pc = "operation") =>
       /\ session # 0
       /\ SessionOf(IssuedWith(operation)) = session
       /\ operation.type.s = "findOneAndUpdate" =>
            IssuedWith(operation)["returnDocument"] = Str("after")
  /\ (IsTransaction /\ txn = "active") =>
       \A j \in 1..Len(calls) : calls[j].session = session
  /\ (endpoint = "/v0/update-one" /\ pc = "updateOne") =>
       UpdateOneOptions(body.single.options)["returnDocument"] = Str("after")
  /\ (endpoint = "/v0/update-one" /\ pc = "done" /\ response.status = 200
        /\ response.doc # NullDoc) =>
       /\ response.doc \in store[body.single.collection.s]
       /\ response.doc \notin store0[body.single.collection.s]

\* update-one sent with returnDocument 'before' is answered with the
\* document as updated
C30_Witness ==
  /\ endpoint = "/v0/update-one"
  /\ pc = "done"
  /\ body.single.options = ReturnBefore
  /\ response.status = 200
  /\ response.doc.value = 1
  /\ calls = <<[fn |-> "findOneAndUpdate", session |-> 0]>>

====
